---- MODULE Spec2Model ----
(***************************************************************************)
(* Model of the BMPP protocol analyzer (bmpp-agents-rs).                   *)
(*                                                                         *)
(* The flow analyzer (transpiler/validation/mod.rs) is modelled as a state *)
(* machine that walks the protocols of a parsed program and runs, for each *)
(* protocol, the passes of validate_protocol_parameter_flow one after the  *)
(* other.  Identifiers are sequences of one-character strings, so that the *)
(* case conversion of is_pre_protocol_parameter is computed character by   *)
(* character.  The composition entry points (validate_protocol_composition, *)
(* validate_protocol_compositions and the resolver of composition.rs) are  *)
(* a second state machine, SpecComp, over the same variables.              *)
(***************************************************************************)
EXTENDS Integers, Sequences, FiniteSets, TLC

(***************************************************************************)
(* Bounds of the explored inputs.                                          *)
(***************************************************************************)
\* Items of a program, protocols of a program, nested instances the resolver
\* is followed into.
MaxItems == 3
MaxProtocols == 2
MaxDepth == 3
\* Interaction items of a text handed to parse_source.
MaxSourceItems == 2
\* The largest --max-attempts given to to_protocol_command.
MaxAttempts == 3

(***************************************************************************)
(* Identifiers used by the explored programs.                              *)
(***************************************************************************)
rA == <<"A">>
rB == <<"B">>
rC == <<"C">>
rD == <<"D">>
aX == <<"x">>
aY == <<"y">>
aZ == <<"z">>
pP == <<"p">>
pQ == <<"q">>
pR == <<"r">>
pU == <<"u">>
nP == <<"P">>
nQ == <<"Q">>
nR == <<"R">>
nChild == <<"C","h","i","l","d">>

\* Sentinel strings of the extractors.
Unknown == <<"U","n","k","n","o","w","n">>
unknown_action == <<"u","n","k","n","o","w","n","_","a","c","t","i","o","n">>
UnknownProtocol == <<"U","n","k","n","o","w","n","P","r","o","t","o","c","o","l">>
System == <<"S","y","s","t","e","m">>
unknown_cycle == <<"u","n","k","n","o","w","n"," ","c","y","c","l","e">>

Range(s) == { s[i] : i \in 1..Len(s) }

(***************************************************************************)
(* AST nodes as the PEG parser builds them.  A child of an interaction is  *)
(* a record [type, name, direction]; a ParameterFlow carries the name of   *)
(* its Identifier child in `name'.                                         *)
(***************************************************************************)
RoleRef(n) == [type |-> "RoleRef", name |-> n, direction |-> ""]
ActionName(n) == [type |-> "ActionName", name |-> n, direction |-> ""]
Annotation == [type |-> "Annotation", name |-> <<>>, direction |-> ""]
Identifier(n) == [type |-> "Identifier", name |-> n, direction |-> ""]
ProtocolReference(n) == [type |-> "ProtocolReference", name |-> n, direction |-> ""]
ParameterFlowNode(d, n) == [type |-> "ParameterFlow", name |-> n, direction |-> d]
In(n) == ParameterFlowNode("in", n)
Out(n) == ParameterFlowNode("out", n)

StandardInteraction(from, to, action, flows) ==
    [type |-> "StandardInteraction",
     children |-> <<RoleRef(from), RoleRef(to), ActionName(action), Annotation>> \o flows]

ProtocolComposition(ref, params) ==
    [type |-> "ProtocolComposition",
     children |-> <<ProtocolReference(ref)>> \o params]

Protocol(name, roles, params, items) ==
    [type |-> "Protocol", name |-> name, roles |-> roles, params |-> params,
     items |-> items]

(***************************************************************************)
(* is_pre_protocol_parameter: upper-case the name, compare with the four   *)
(* literals.                                                               *)
(***************************************************************************)
LowerChars == <<"a","b","c","d","e","f","g","h","i","j","k","l","m",
                "n","o","p","q","r","s","t","u","v","w","x","y","z">>
UpperChars == <<"A","B","C","D","E","F","G","H","I","J","K","L","M",
                "N","O","P","Q","R","S","T","U","V","W","X","Y","Z">>

to_uppercase_char(c) ==
    IF \E i \in 1..Len(LowerChars) : LowerChars[i] = c
    THEN UpperChars[CHOOSE i \in 1..Len(LowerChars) : LowerChars[i] = c]
    ELSE c

to_uppercase(s) == [i \in 1..Len(s) |-> to_uppercase_char(s[i])]

PreProtocolLiterals ==
    { <<"I","D">>,
      <<"T","I","M","E","S","T","A","M","P">>,
      <<"N","O","N","C","E">>,
      <<"S","E","S","S","I","O","N","_","I","D">> }

\* Variant that compares the name as written.
is_pre_protocol_exact(param_name) ==
    param_name \in PreProtocolLiterals

is_pre_protocol_parameter(param_name) ==
    to_uppercase(param_name) \in PreProtocolLiterals

(***************************************************************************)
(* Verdicts.  An error keeps the names its message is formatted from.      *)
(***************************************************************************)
Verdict(kind, protocol, interaction, parameter, producers, path) ==
    [kind |-> kind, protocol |-> protocol, interaction |-> interaction,
     parameter |-> parameter, producers |-> producers, path |-> path]

NoError == Verdict("none", <<>>, <<>>, <<>>, {}, <<>>)
OkVerdict == Verdict("Ok", <<>>, <<>>, <<>>, {}, <<>>)

Warning(kind, protocol, names) ==
    [kind |-> kind, protocol |-> protocol, names |-> names]

(***************************************************************************)
(* Collection pass.                                                        *)
(***************************************************************************)
extract_protocol_name(protocol_node) == protocol_node.name

\* declared_parameters and parameter_info after the ParametersSection; a
\* repeated declaration overwrites the entry with an equal one.
extract_parameters(params_section) ==
    [n \in Range(params_section) |-> [producers |-> {}, consumers |-> {}]]

extract_parameter_flow(node) ==
    [direction |-> node.direction, parameter |-> node.name]

RECURSIVE standard_children(_, _, _)
standard_children(children, k, acc) ==
    IF k > Len(children) THEN acc
    ELSE LET child == children[k]
             next ==
               CASE child.type = "RoleRef" ->
                      IF acc.from_role = Unknown
                      THEN [acc EXCEPT !.from_role = child.name]
                      ELSE IF acc.to_role = Unknown
                           THEN [acc EXCEPT !.to_role = child.name]
                           ELSE acc
                 [] child.type = "ActionName" ->
                      [acc EXCEPT !.action = child.name]
                 [] child.type = "Identifier" ->
                      IF acc.from_role = Unknown
                      THEN [acc EXCEPT !.from_role = child.name]
                      ELSE IF acc.to_role = Unknown
                           THEN [acc EXCEPT !.to_role = child.name]
                           ELSE IF acc.action = unknown_action
                                THEN [acc EXCEPT !.action = child.name]
                                ELSE acc
                 [] child.type = "ParameterFlow" ->
                      [acc EXCEPT !.parameter_flows =
                                     Append(@, extract_parameter_flow(child))]
                 [] OTHER -> acc
         IN standard_children(children, k + 1, next)

extract_standard_interaction(node) ==
    standard_children(node.children, 1,
        [action |-> unknown_action, from_role |-> Unknown, to_role |-> Unknown,
         parameter_flows |-> <<>>])

RECURSIVE composition_children(_, _, _)
composition_children(children, k, acc) ==
    IF k > Len(children) THEN acc
    ELSE LET child == children[k]
             next ==
               CASE child.type = "ProtocolReference" ->
                      [acc EXCEPT !.protocol_name = child.name]
                 [] child.type = "Identifier" ->
                      [acc EXCEPT !.roles = Append(@, child.name)]
                 [] child.type = "ParameterFlow" ->
                      [acc EXCEPT !.parameter_flows =
                                     Append(@, extract_parameter_flow(child))]
                 [] OTHER -> acc
         IN composition_children(children, k + 1, next)

\* roles.resize(2, "System") pads the role list to two entries.
extract_composition_interaction(node) ==
    LET acc == composition_children(node.children, 1,
                   [protocol_name |-> UnknownProtocol, roles |-> <<>>,
                    parameter_flows |-> <<>>])
        roles == IF Len(acc.roles) < 2
                 THEN acc.roles \o [i \in 1..(2 - Len(acc.roles)) |-> System]
                 ELSE acc.roles
    IN [action |-> acc.protocol_name, from_role |-> roles[1],
        to_role |-> roles[2], parameter_flows |-> acc.parameter_flows]

RECURSIVE usage_flows(_, _, _, _, _)
usage_flows(interaction, k, declared, pinfo, protocol_name) ==
    IF k > Len(interaction.parameter_flows)
    THEN [error |-> NoError, parameter_info |-> pinfo]
    ELSE LET flow == interaction.parameter_flows[k] IN
         IF flow.parameter \notin declared
         THEN [error |-> Verdict("UndeclaredParameter", protocol_name,
                                 interaction.action, flow.parameter, {}, <<>>),
               parameter_info |-> pinfo]
         ELSE IF flow.direction = "out"
         THEN usage_flows(interaction, k + 1, declared,
                  [pinfo EXCEPT ![flow.parameter].producers =
                                    @ \cup {interaction.action}],
                  protocol_name)
         ELSE IF flow.direction = "in"
         THEN usage_flows(interaction, k + 1, declared,
                  [pinfo EXCEPT ![flow.parameter].consumers =
                                    @ \cup {interaction.action}],
                  protocol_name)
         ELSE [error |-> Verdict("InvalidDirection", protocol_name,
                                 interaction.action, flow.parameter, {}, <<>>),
               parameter_info |-> pinfo]

\* Variant without the declared_parameters test: an undeclared name is skipped.
RECURSIVE usage_flows_unchecked(_, _, _, _, _)
usage_flows_unchecked(interaction, k, declared, pinfo, protocol_name) ==
    IF k > Len(interaction.parameter_flows)
    THEN [error |-> NoError, parameter_info |-> pinfo]
    ELSE LET flow == interaction.parameter_flows[k] IN
         IF flow.parameter \notin DOMAIN pinfo
         THEN usage_flows_unchecked(interaction, k + 1, declared, pinfo, protocol_name)
         ELSE usage_flows_unchecked(interaction, k + 1, declared,
                  IF flow.direction = "out"
                  THEN [pinfo EXCEPT ![flow.parameter].producers =
                                         @ \cup {interaction.action}]
                  ELSE [pinfo EXCEPT ![flow.parameter].consumers =
                                         @ \cup {interaction.action}],
                  protocol_name)

usage_without_declaration_check(interaction, declared, pinfo, protocol_name) ==
    usage_flows_unchecked(interaction, 1, declared, pinfo, protocol_name)

validate_and_update_parameter_usage(interaction, declared, pinfo, protocol_name) ==
    usage_flows(interaction, 1, declared, pinfo, protocol_name)

RECURSIVE interaction_items(_, _, _, _, _, _)
interaction_items(items, k, acc, declared, pinfo, protocol_name) ==
    IF k > Len(items)
    THEN [error |-> NoError, interactions |-> acc, parameter_info |-> pinfo]
    ELSE LET interaction ==
               IF items[k].type = "StandardInteraction"
               THEN extract_standard_interaction(items[k])
               ELSE extract_composition_interaction(items[k])
             used == validate_and_update_parameter_usage(
                         interaction, declared, pinfo, protocol_name)
         IN IF used.error # NoError
            THEN [error |-> used.error, interactions |-> acc,
                  parameter_info |-> used.parameter_info]
            ELSE interaction_items(items, k + 1, Append(acc, interaction),
                     declared, used.parameter_info, protocol_name)

extract_interactions(interaction_section, declared, pinfo, protocol_name) ==
    interaction_items(interaction_section, 1, <<>>, declared, pinfo, protocol_name)

(***************************************************************************)
(* Reachability pass.                                                      *)
(***************************************************************************)
\* The (interaction, flow) positions at which the loop returns its error.
UnproducedInputs(parameters, interactions) ==
    { ik \in UNION { { <<i, k>> : k \in 1..Len(interactions[i].parameter_flows) }
                     : i \in 1..Len(interactions) } :
        LET flow == interactions[ik[1]].parameter_flows[ik[2]] IN
          /\ flow.direction = "in"
          /\ flow.parameter \in DOMAIN parameters
          /\ parameters[flow.parameter].producers = {}
          /\ ~is_pre_protocol_parameter(flow.parameter) }

FirstPosition(positions) ==
    CHOOSE a \in positions :
        \A b \in positions : a[1] < b[1] \/ (a[1] = b[1] /\ a[2] <= b[2])

\* Variant without the exemption of pre-protocol parameters.
unreachable_without_exemption(parameters, interactions, protocol_name) ==
    LET bad == { ik \in UNION { { <<i, k>> : k \in 1..Len(interactions[i].parameter_flows) }
                                : i \in 1..Len(interactions) } :
                   LET flow == interactions[ik[1]].parameter_flows[ik[2]] IN
                     /\ flow.direction = "in"
                     /\ flow.parameter \in DOMAIN parameters
                     /\ parameters[flow.parameter].producers = {} }
    IN IF bad = {} THEN NoError
       ELSE LET at == FirstPosition(bad) IN
            Verdict("UnreachableInteraction", protocol_name,
                    interactions[at[1]].action,
                    interactions[at[1]].parameter_flows[at[2]].parameter, {}, <<>>)

validate_unreachable_interactions(parameters, interactions, protocol_name) ==
    LET bad == UnproducedInputs(parameters, interactions) IN
    IF bad = {} THEN NoError
    ELSE LET at == FirstPosition(bad) IN
         Verdict("UnreachableInteraction", protocol_name,
                 interactions[at[1]].action,
                 interactions[at[1]].parameter_flows[at[2]].parameter, {}, <<>>)

(***************************************************************************)
(* Safety pass.                                                            *)
(***************************************************************************)
\* The interactions whose action name is in `producers', in declaration order.
RECURSIVE named_interactions(_, _, _)
named_interactions(names, interactions, k) ==
    IF k > Len(interactions) THEN <<>>
    ELSE (IF interactions[k].action \in names THEN <<interactions[k]>> ELSE <<>>)
         \o named_interactions(names, interactions, k + 1)

\* The shared_inputs computed after the same-role test do not influence the
\* returned value.
is_valid_parallel_production(parameter_name, producers, interactions) ==
    IF Cardinality(producers) <= 1 THEN TRUE
    ELSE LET producer_interactions == named_interactions(producers, interactions, 1) IN
         IF producer_interactions = <<>> THEN FALSE
         ELSE LET first_role == producer_interactions[1].from_role IN
              \A i \in 1..Len(producer_interactions) :
                  producer_interactions[i].from_role = first_role

\* All iteration orders of a hash map or hash set with the given keys.
RECURSIVE IterationOrders(_)
IterationOrders(keys) ==
    IF keys = {} THEN { <<>> }
    ELSE UNION { { <<x>> \o rest : rest \in IterationOrders(keys \ {x}) } : x \in keys }

\* The loop over the parameter map, visited in `order'.
RECURSIVE flow_consistency_loop(_, _, _, _, _, _)
flow_consistency_loop(order, k, parameters, interactions, protocol_name, warned) ==
    IF k > Len(order) THEN [error |-> NoError, warnings |-> warned]
    ELSE LET param_name == order[k]
             param_info == parameters[param_name]
         IN IF /\ Cardinality(param_info.producers) > 1
               /\ ~is_valid_parallel_production(param_name, param_info.producers,
                                                interactions)
            THEN [error |-> Verdict("MultipleProducers", protocol_name, <<>>,
                                    param_name, param_info.producers, <<>>),
                  warnings |-> warned]
            ELSE flow_consistency_loop(order, k + 1, parameters, interactions,
                     protocol_name,
                     IF param_info.producers = {} /\ param_info.consumers = {}
                     THEN warned \cup { Warning("unused", protocol_name, {param_name}) }
                     ELSE warned)

validate_flow_consistency(order, parameters, interactions, protocol_name) ==
    flow_consistency_loop(order, 1, parameters, interactions, protocol_name, {})

(***************************************************************************)
(* Causality pass.                                                         *)
(***************************************************************************)
\* interactions.iter().find(|i| i.action == name): 0 when there is none.
find_interaction(name, interactions) ==
    IF \E i \in 1..Len(interactions) : interactions[i].action = name
    THEN CHOOSE i \in 1..Len(interactions) :
             /\ interactions[i].action = name
             /\ \A j \in 1..(i - 1) : interactions[j].action # name
    ELSE 0

FlowParameters(interaction, direction) ==
    { interaction.parameter_flows[k].parameter :
        k \in { j \in 1..Len(interaction.parameter_flows) :
                  interaction.parameter_flows[j].direction = direction } }

is_parallel_branch_relationship(producer, consumer, interactions, parameters) ==
    LET pi == find_interaction(producer, interactions)
        ci == find_interaction(consumer, interactions)
    IN /\ pi # 0
       /\ ci # 0
       /\ LET prod == interactions[pi]
              cons == interactions[ci]
              shared_params == FlowParameters(prod, "out") \cap FlowParameters(cons, "in")
          IN /\ prod.from_role = cons.from_role
             /\ prod.to_role # cons.to_role
             /\ \E param \in shared_params :
                  /\ param \in DOMAIN parameters
                  /\ Cardinality(parameters[param].producers) > 1
                  /\ LET named == named_interactions(parameters[param].producers,
                                                     interactions, 1)
                     IN Cardinality({ named[i].from_role : i \in 1..Len(named) }) = 1

\* precedence_graph[producer]: one entry per `in' flow, in the order in which
\* the interactions and their flows are visited.
RECURSIVE successor_list(_, _, _, _, _)
successor_list(producer, i, k, interactions, parameters) ==
    IF i > Len(interactions) THEN <<>>
    ELSE IF k > Len(interactions[i].parameter_flows)
    THEN successor_list(producer, i + 1, 1, interactions, parameters)
    ELSE LET flow == interactions[i].parameter_flows[k]
             edge == /\ flow.direction = "in"
                     /\ flow.parameter \in DOMAIN parameters
                     /\ producer \in parameters[flow.parameter].producers
                     /\ producer # interactions[i].action
                     /\ ~is_parallel_branch_relationship(
                            producer, interactions[i].action, interactions, parameters)
         IN (IF edge THEN <<interactions[i].action>> ELSE <<>>)
            \o successor_list(producer, i, k + 1, interactions, parameters)

ActionNames(interactions) == { interactions[i].action : i \in 1..Len(interactions) }

precedence_graph(parameters, interactions) ==
    [a \in ActionNames(interactions) |->
        successor_list(a, 1, 1, interactions, parameters)]

Occurrences(list, x) == Cardinality({ i \in 1..Len(list) : list[i] = x })

RECURSIVE SumOver(_, _, _)
SumOver(nodes, graph, x) ==
    IF nodes = {} THEN 0
    ELSE LET n == CHOOSE m \in nodes : TRUE
         IN Occurrences(graph[n], x) + SumOver(nodes \ {n}, graph, x)

initial_in_degree(graph) ==
    [a \in DOMAIN graph |-> SumOver(DOMAIN graph, graph, a)]

RECURSIVE release_successors(_, _, _, _)
release_successors(successors, k, in_degree, queue) ==
    IF k > Len(successors) THEN [in_degree |-> in_degree, queue |-> queue]
    ELSE LET successor == successors[k]
             degree == in_degree[successor] - 1
         IN release_successors(successors, k + 1,
                [in_degree EXCEPT ![successor] = degree],
                IF degree = 0 THEN Append(queue, successor) ELSE queue)

\* while let Some(current) = queue.pop()
RECURSIVE topological_order(_, _, _, _)
topological_order(graph, queue, in_degree, ordered) ==
    IF queue = <<>> THEN ordered
    ELSE LET current == queue[Len(queue)]
             released == release_successors(graph[current], 1, in_degree,
                                            SubSeq(queue, 1, Len(queue) - 1))
         IN topological_order(graph, released.queue, released.in_degree,
                              Append(ordered, current))

RECURSIVE dfs_find_cycle(_, _, _, _)
RECURSIVE dfs_successors(_, _, _, _, _)
dfs_find_cycle(node, graph, visited, path) ==
    IF \E i \in 1..Len(path) : path[i] = node
    THEN LET cycle_start == CHOOSE i \in 1..Len(path) :
                                /\ path[i] = node
                                /\ \A j \in 1..(i - 1) : path[j] # node
         IN [found |-> TRUE,
             cycle |-> Append(SubSeq(path, cycle_start, Len(path)), node),
             visited |-> visited]
    ELSE IF node \in visited
    THEN [found |-> FALSE, cycle |-> <<>>, visited |-> visited]
    ELSE dfs_successors(IF node \in DOMAIN graph THEN graph[node] ELSE <<>>,
                        1, graph, visited \cup {node}, Append(path, node))

dfs_successors(successors, k, graph, visited, path) ==
    IF k > Len(successors)
    THEN [found |-> FALSE, cycle |-> <<>>, visited |-> visited]
    ELSE LET r == dfs_find_cycle(successors[k], graph, visited, path)
         IN IF r.found THEN r
            ELSE dfs_successors(successors, k + 1, graph, r.visited, path)

\* Variant that prints the node the search started from only.
cycle_path_start_only(graph, remaining_nodes) ==
    IF remaining_nodes = <<>> THEN <<unknown_cycle>>
    ELSE <<remaining_nodes[1]>>

\* The text of the cycle, as the list of names joined by " -> ".
find_cycle_path(graph, remaining_nodes) ==
    IF remaining_nodes = <<>> THEN <<unknown_cycle>>
    ELSE LET r == dfs_find_cycle(remaining_nodes[1], graph, {}, <<>>)
         IN IF r.found THEN r.cycle ELSE remaining_nodes

\* `order' is the iteration order of the in_degree map, which fills the queue.
validate_causality(order, parameters, interactions, protocol_name) ==
    LET graph == precedence_graph(parameters, interactions)
        in_degree == initial_in_degree(graph)
        IsSource(a) == in_degree[a] = 0
        queue == SelectSeq(order, IsSource)
        ordered_interactions == topological_order(graph, queue, in_degree, <<>>)
        IsRemaining(i) == i.action \notin Range(ordered_interactions)
        remaining_interactions == SelectSeq(interactions, IsRemaining)
        remaining == [i \in 1..Len(remaining_interactions) |->
                         remaining_interactions[i].action]
    IN IF Len(ordered_interactions) # Len(interactions)
       THEN Verdict("CausalityViolation", protocol_name, <<>>, <<>>, {},
                    find_cycle_path(graph, remaining))
       ELSE NoError

(***************************************************************************)
(* Completeness and enactability passes.                                   *)
(***************************************************************************)
\* Variant that turns a dead-end parameter into an error.
completeness_failing_on_dead_end(parameters, protocol_name) ==
    LET dead_end_parameters ==
            { n \in DOMAIN parameters :
                parameters[n].producers # {} /\ parameters[n].consumers = {} }
    IN [error |-> IF dead_end_parameters # {}
                  THEN Verdict("DeadEnd", protocol_name, <<>>, <<>>, {}, <<>>)
                  ELSE NoError,
        warnings |-> {}]

\* Variant that reports orphaned parameters only.
completeness_without_dead_end(parameters, protocol_name) ==
    LET orphaned_parameters ==
            { n \in DOMAIN parameters :
                parameters[n].producers = {} /\ parameters[n].consumers = {} }
    IN [error |-> NoError,
        warnings |->
            IF orphaned_parameters # {}
            THEN { Warning("orphaned", protocol_name, orphaned_parameters) } ELSE {}]

\* validate_completeness prints its warnings and always returns Ok.
validate_completeness(parameters, protocol_name) ==
    LET dead_end_parameters ==
            { n \in DOMAIN parameters :
                parameters[n].producers # {} /\ parameters[n].consumers = {} }
        orphaned_parameters ==
            { n \in DOMAIN parameters :
                parameters[n].producers = {} /\ parameters[n].consumers = {} }
    IN [error |-> NoError,
        warnings |->
            (IF dead_end_parameters # {}
             THEN { Warning("dead_end", protocol_name, dead_end_parameters) } ELSE {})
            \cup
            (IF orphaned_parameters # {}
             THEN { Warning("orphaned", protocol_name, orphaned_parameters) } ELSE {})]

UnproducedInput(flow, parameters) ==
    /\ flow.direction = "in"
    /\ flow.parameter \in DOMAIN parameters
    /\ parameters[flow.parameter].producers = {}
    /\ ~is_pre_protocol_parameter(flow.parameter)

\* First loop of validate_enactability: role check, then the flows, per interaction.
RECURSIVE enactability_errors(_, _, _, _)
enactability_errors(interactions, i, parameters, protocol_name) ==
    IF i > Len(interactions) THEN NoError
    ELSE LET interaction == interactions[i]
             bad == { k \in 1..Len(interaction.parameter_flows) :
                        UnproducedInput(interaction.parameter_flows[k], parameters) }
         IN IF interaction.from_role = Unknown \/ interaction.to_role = Unknown
            THEN Verdict("UndefinedRole", protocol_name, interaction.action,
                         <<>>, {}, <<>>)
            ELSE IF bad # {}
            THEN Verdict("NeverProduced", protocol_name, interaction.action,
                         interaction.parameter_flows[
                             CHOOSE k \in bad : \A j \in bad : k <= j].parameter,
                         {}, <<>>)
            ELSE enactability_errors(interactions, i + 1, parameters, protocol_name)

has_unresolved_deps(interaction, parameters) ==
    \E k \in 1..Len(interaction.parameter_flows) :
        LET flow == interaction.parameter_flows[k] IN
          /\ flow.direction = "in"
          /\ IF flow.parameter \in DOMAIN parameters
             THEN /\ parameters[flow.parameter].producers = {}
                  /\ ~is_pre_protocol_parameter(flow.parameter)
             ELSE TRUE

can_execute(interaction, parameters, executable_interactions) ==
    \A k \in 1..Len(interaction.parameter_flows) :
        LET flow == interaction.parameter_flows[k] IN
          flow.direction = "in" =>
            IF flow.parameter \in DOMAIN parameters
            THEN \/ is_pre_protocol_parameter(flow.parameter)
                 \/ parameters[flow.parameter].producers
                        \cap executable_interactions # {}
            ELSE FALSE

\* One sweep of the `for' inside `while changed'.
RECURSIVE executable_sweep(_, _, _, _, _)
executable_sweep(interactions, i, parameters, executable_interactions, changed) ==
    IF i > Len(interactions)
    THEN [executable |-> executable_interactions, changed |-> changed]
    ELSE IF /\ interactions[i].action \notin executable_interactions
            /\ can_execute(interactions[i], parameters, executable_interactions)
         THEN executable_sweep(interactions, i + 1, parameters,
                  executable_interactions \cup {interactions[i].action}, TRUE)
         ELSE executable_sweep(interactions, i + 1, parameters,
                  executable_interactions, changed)

RECURSIVE executable_fixpoint(_, _, _)
executable_fixpoint(interactions, parameters, executable_interactions) ==
    LET sweep == executable_sweep(interactions, 1, parameters,
                                  executable_interactions, FALSE)
    IN IF sweep.changed
       THEN executable_fixpoint(interactions, parameters, sweep.executable)
       ELSE sweep.executable

initially_executable(interactions, parameters) ==
    { interactions[i].action :
        i \in { j \in 1..Len(interactions) :
                  ~has_unresolved_deps(interactions[j], parameters) } }

validate_enactability(interactions, parameters, protocol_name) ==
    LET error == enactability_errors(interactions, 1, parameters, protocol_name)
        executable_interactions ==
            executable_fixpoint(interactions, parameters,
                                initially_executable(interactions, parameters))
    IN IF error # NoError THEN [error |-> error, warnings |-> {}]
       ELSE [error |-> NoError,
             warnings |->
                { Warning("unreachable", protocol_name, {interactions[i].action}) :
                    i \in { j \in 1..Len(interactions) :
                              interactions[j].action \notin executable_interactions } }]

(***************************************************************************)
(* The explored programs.                                                  *)
(***************************************************************************)
RolesSection == <<rA, rB, rC>>
ParametersSection == <<pP, pQ, pR>>

\* Interaction items the generated protocols are built from.
ItemPool ==
    { StandardInteraction(rA, rB, aX, <<Out(pP)>>),
      StandardInteraction(rA, rC, aY, <<Out(pP)>>),
      StandardInteraction(rB, rA, aY, <<In(pP), Out(pQ)>>),
      StandardInteraction(rA, rB, aX, <<In(pQ), Out(pP)>>),
      StandardInteraction(rA, rB, aZ, <<In(pU)>>),
      StandardInteraction(Unknown, rB, aZ, <<Out(pQ)>>),
      StandardInteraction(rA, rB, aX, <<In(pR), Out(pP), Out(pQ)>>),
      StandardInteraction(rA, rC, aY, <<In(pP), In(pQ), Out(pQ), Out(pR)>>),
      ProtocolComposition(nChild, <<Identifier(rA), Identifier(rB), In(pP), Out(pQ)>>),
      ProtocolComposition(nChild, <<Identifier(rA), In(pU)>>) }

ProtocolNames == <<nP, nQ, nR>>
ProtocolNameAt(k) == ProtocolNames[((k - 1) % Len(ProtocolNames)) + 1]

\* The shapes of the generated programs: the number of items of each protocol,
\* for at most MaxProtocols protocols holding at most `budget' items.
RECURSIVE ProgramShapes(_, _)
ProgramShapes(k, budget) ==
    IF k > MaxProtocols \/ budget < 1 THEN {}
    ELSE UNION { { <<n>> \o rest : rest \in { <<>> } \cup ProgramShapes(k + 1, budget - n) }
                 : n \in 1..budget }

RECURSIVE TotalItems(_)
TotalItems(shape) ==
    IF shape = <<>> THEN 0 ELSE Head(shape) + TotalItems(Tail(shape))

\* The program of the given shape whose items are, in order, those of `flat'.
GeneratedProgram(shape, flat) ==
    [k \in 1..Len(shape) |->
        Protocol(ProtocolNameAt(k), RolesSection, ParametersSection,
                 SubSeq(flat, TotalItems(SubSeq(shape, 1, k - 1)) + 1,
                        TotalItems(SubSeq(shape, 1, k))))]

\* Scenario S1 of the specification: the valid purchase protocol.
sBuyer == <<"B","u","y","e","r">>
sSeller == <<"S","e","l","l","e","r">>
sShipper == <<"S","h","i","p","p","e","r">>
sID_ == <<"I","D">>
sitem == <<"i","t","e","m">>
sprice == <<"p","r","i","c","e">>
saddress == <<"a","d","d","r","e","s","s">>
sshipped == <<"s","h","i","p","p","e","d">>
sdelivered == <<"d","e","l","i","v","e","r","e","d">>
srfq == <<"r","f","q">>
squote == <<"q","u","o","t","e">>
saccept == <<"a","c","c","e","p","t">>
sship == <<"s","h","i","p">>
sdeliver == <<"d","e","l","i","v","e","r">>
sValidPurchase == <<"V","a","l","i","d","P","u","r","c","h","a","s","e">>

ValidPurchase ==
    Protocol(sValidPurchase, <<sBuyer, sSeller, sShipper>>,
        <<sID_, sitem, sprice, saddress, sshipped, sdelivered>>,
        << StandardInteraction(sBuyer, sSeller, srfq, <<Out(sID_), Out(sitem)>>),
           StandardInteraction(sSeller, sBuyer, squote,
               <<In(sID_), In(sitem), Out(sprice)>>),
           StandardInteraction(sBuyer, sSeller, saccept,
               <<In(sID_), In(sprice), Out(saddress)>>),
           StandardInteraction(sSeller, sShipper, sship,
               <<In(sID_), In(sitem), In(saddress), Out(sshipped)>>),
           StandardInteraction(sShipper, sBuyer, sdeliver,
               <<In(sID_), In(sshipped), Out(sdelivered)>>) >>)

\* Parameter names tried against the pre-protocol whitelist.
CandidateNames ==
    { <<"I","D">>,
      <<"i","d">>,
      <<"I","d">>,
      <<"N","O","N","C","E">>,
      <<"n","o","n","c","e">>,
      <<"T","i","m","e","s","t","a","m","p">>,
      <<"S","E","S","S","I","O","N","_","I","D">>,
      <<"s","e","s","s","i","o","n","_","i","d">>,
      <<"S","e","s","s","i","o","n","_","I","d">>,
      <<"I","D","S">>,
      <<"I">>,
      <<"S","E","S","S","I","O","N","I","D">>,
      <<"T","I","M","E">>,
      <<"i","t","e","m">>,
      <<"n","o","n","c","e","2">> }

\* A protocol that only consumes n, and one that produces it first.
PreProtocolPrograms ==
    { <<Protocol(nP, RolesSection, <<n, pP>>,
          <<StandardInteraction(rA, rB, aX, <<In(n), Out(pP)>>)>>)>>
        : n \in CandidateNames }
    \cup
    { <<Protocol(nP, RolesSection, <<n, pP>>,
          <<StandardInteraction(rA, rB, aX, <<Out(n)>>),
            StandardInteraction(rB, rA, aY, <<In(n), Out(pP)>>)>>)>>
        : n \in CandidateNames }

\* Interactions to or from the role D, which the protocol does not declare.
UndeclaredRolePrograms ==
    { <<Protocol(nP, RolesSection, ParametersSection,
          <<StandardInteraction(rA, rD, aX, <<Out(pP)>>)>>)>>,
      <<Protocol(nP, RolesSection, ParametersSection,
          <<StandardInteraction(rA, rB, aX, <<Out(pP)>>),
            StandardInteraction(rD, rA, aY, <<In(pP), Out(pQ)>>)>>)>> }

\* Two parameters, each produced by interactions of two different senders.
MultipleProducerPrograms ==
    { <<Protocol(nP, RolesSection, ParametersSection,
          <<StandardInteraction(rA, rB, aX, <<Out(pP), Out(pQ)>>),
            StandardInteraction(rB, rA, aY, <<Out(pP), Out(pQ)>>)>>)>> }

\* A role declared twice, and a parameter declared twice.
DuplicateDeclarationPrograms ==
    { <<Protocol(nP, <<rA, rB, rA>>, ParametersSection,
          <<StandardInteraction(rA, rB, aX, <<Out(pP)>>),
            StandardInteraction(rB, rA, aY, <<In(pP)>>)>>)>>,
      <<Protocol(nP, RolesSection, <<pP, pQ, pP>>,
          <<StandardInteraction(rA, rB, aX, <<Out(pP)>>),
            StandardInteraction(rB, rA, aY, <<In(pP), Out(pQ)>>)>>)>> }

\* An interaction that consumes from a cycle, declared before the cycle.
DownstreamOfCyclePrograms ==
    { <<Protocol(nP, RolesSection, ParametersSection,
          <<StandardInteraction(rC, rA, aZ, <<In(pQ)>>),
            StandardInteraction(rB, rA, aY, <<In(pP), Out(pQ)>>),
            StandardInteraction(rA, rB, aX, <<In(pQ), Out(pP)>>)>>)>> }

\* A declared role that is literally named Unknown.
RoleNamedUnknownPrograms ==
    { <<Protocol(nP, <<Unknown, rB, rC>>, ParametersSection,
          <<StandardInteraction(Unknown, rB, aX, <<Out(pP)>>),
            StandardInteraction(rB, Unknown, aY, <<In(pP), Out(pQ)>>)>>)>> }

ScenarioPrograms ==
    { <<ValidPurchase>> } \cup PreProtocolPrograms \cup UndeclaredRolePrograms
        \cup MultipleProducerPrograms \cup DuplicateDeclarationPrograms
        \cup DownstreamOfCyclePrograms \cup RoleNamedUnknownPrograms

(***************************************************************************)
(* The analyzer as a state machine: validate_parameter_flow visits the     *)
(* protocols in program order; pc names the pass that runs next.           *)
(***************************************************************************)
VARIABLES program, protoIdx, pc, declared_parameters, parameter_info,
          interactions, result, warnings, passLog,
          entry, protocols, expanded,
          source, output, attempt, args

vars == <<program, protoIdx, pc, declared_parameters, parameter_info,
          interactions, result, warnings, passLog,
          entry, protocols, expanded,
          source, output, attempt, args>>

\* The text handed to parse_source, what a command has emitted or written,
\* and the attempt counter and the arguments of to_protocol_command; the
\* analyzer and the composition entry points work on a parsed program and
\* leave them alone.
command_vars == <<source, output, attempt, args>>

\* What the composition entry points work on; the flow analyzer leaves it alone.
composition_vars == <<entry, protocols, expanded>>

current_protocol_name == extract_protocol_name(program[protoIdx])

Init ==
    /\ \/ \E shape \in ProgramShapes(1, MaxItems) :
            \E flat \in [1..TotalItems(shape) -> ItemPool] :
                program = GeneratedProgram(shape, flat)
       \/ program \in ScenarioPrograms
    /\ protoIdx = 0
    /\ pc = "next_protocol"
    /\ declared_parameters = {}
    /\ parameter_info = <<>>
    /\ interactions = <<>>
    /\ result = NoError
    /\ warnings = {}
    /\ passLog = <<>>
    /\ entry = "validate_parameter_flow"
    /\ protocols = <<>>
    /\ expanded = <<>>
    /\ source = <<>>
    /\ output = <<>>
    /\ attempt = 0
    /\ args = <<>>

\* Leave the pass with `error', or go on to the pass `next'.
Step(pass, error, next, warned) ==
    /\ passLog' = Append(passLog, <<protoIdx, pass>>)
    /\ warnings' = warnings \cup warned
    /\ UNCHANGED <<composition_vars, command_vars>>
    /\ IF error # NoError
       THEN /\ result' = error
            /\ pc' = "done"
       ELSE /\ result' = result
            /\ pc' = next

\* validate_parameter_flow: the next protocol of the loop, its name and its
\* ParametersSection.
BeginProtocol ==
    /\ pc = "next_protocol"
    /\ protoIdx < Len(program)
    /\ protoIdx' = protoIdx + 1
    /\ parameter_info' = extract_parameters(program[protoIdx + 1].params)
    /\ declared_parameters' = Range(program[protoIdx + 1].params)
    /\ interactions' = <<>>
    /\ pc' = "collect"
    /\ UNCHANGED <<program, result, warnings, passLog, composition_vars, command_vars>>

\* validate_parameter_flow: Ok(()) after the last protocol.
Finish ==
    /\ pc = "next_protocol"
    /\ protoIdx = Len(program)
    /\ result' = OkVerdict
    /\ pc' = "done"
    /\ UNCHANGED <<program, protoIdx, declared_parameters, parameter_info,
                   interactions, warnings, passLog, composition_vars, command_vars>>

\* Variant in which the safety pass follows the collection pass directly.
CollectThenSafety ==
    /\ pc = "collect"
    /\ LET r == extract_interactions(program[protoIdx].items, declared_parameters,
                                     parameter_info, current_protocol_name)
       IN /\ interactions' = r.interactions
          /\ parameter_info' = r.parameter_info
          /\ Step("collect", r.error, "safety", {})
    /\ UNCHANGED <<program, protoIdx, declared_parameters>>

Collect ==
    /\ pc = "collect"
    /\ LET r == extract_interactions(program[protoIdx].items, declared_parameters,
                                     parameter_info, current_protocol_name)
       IN /\ interactions' = r.interactions
          /\ parameter_info' = r.parameter_info
          /\ Step("collect", r.error, "reachability", {})
    /\ UNCHANGED <<program, protoIdx, declared_parameters>>

Reachability ==
    /\ pc = "reachability"
    /\ Step("reachability",
            validate_unreachable_interactions(parameter_info, interactions,
                                              current_protocol_name),
            "safety", {})
    /\ UNCHANGED <<program, protoIdx, declared_parameters, parameter_info, interactions>>

Safety ==
    /\ pc = "safety"
    /\ \E order \in IterationOrders(DOMAIN parameter_info) :
         LET r == validate_flow_consistency(order, parameter_info, interactions,
                                            current_protocol_name)
         IN Step("safety", r.error, "causality", r.warnings)
    /\ UNCHANGED <<program, protoIdx, declared_parameters, parameter_info, interactions>>

Causality ==
    /\ pc = "causality"
    /\ \E order \in IterationOrders(ActionNames(interactions)) :
         Step("causality",
              validate_causality(order, parameter_info, interactions, current_protocol_name),
              "completeness", {})
    /\ UNCHANGED <<program, protoIdx, declared_parameters, parameter_info, interactions>>

Completeness ==
    /\ pc = "completeness"
    /\ LET r == validate_completeness(parameter_info, current_protocol_name)
       IN Step("completeness", r.error, "enactability", r.warnings)
    /\ UNCHANGED <<program, protoIdx, declared_parameters, parameter_info, interactions>>

Enactability ==
    /\ pc = "enactability"
    /\ LET r == validate_enactability(interactions, parameter_info, current_protocol_name)
       IN Step("enactability", r.error, "next_protocol", r.warnings)
    /\ UNCHANGED <<program, protoIdx, declared_parameters, parameter_info, interactions>>

Next ==
    \/ BeginProtocol
    \/ Collect
    \/ Reachability
    \/ Safety
    \/ Causality
    \/ Completeness
    \/ Enactability
    \/ Finish

Spec == Init /\ [][Next]_vars

(***************************************************************************)
(* Composition: the protocol registry, the two composition validators and  *)
(* the resolver (transpiler/composition.rs, validation/mod.rs 790-882).    *)
(***************************************************************************)
CompositionError(kind, protocol, referenced, expected, got) ==
    [kind |-> kind, protocol |-> protocol, referenced |-> referenced,
     expected |-> expected, got |-> got]

\* register_protocol: HashMap::insert, a later protocol of the same name
\* replaces the earlier one.
register_protocol(registry, name, protocol) ==
    [n \in DOMAIN registry \cup {name} |-> IF n = name THEN protocol ELSE registry[n]]

RECURSIVE register_all(_, _, _)
register_all(program_node, k, registry) ==
    IF k > Len(program_node) THEN registry
    ELSE register_all(program_node, k + 1,
             register_protocol(registry, extract_protocol_name(program_node[k]),
                               program_node[k]))

from_program(program_node) == register_all(program_node, 1, <<>>)

\* The names of the ProtocolReference children of a composition node.
reference_names(composition_node) ==
    LET refs == SelectSeq(composition_node.children,
                          LAMBDA c : c.type = "ProtocolReference")
    IN [i \in 1..Len(refs) |-> refs[i].name]

CompositionParameter(child) ==
    [parameter_type |-> IF child.type = "Identifier" THEN "RoleIdentifier"
                        ELSE "ParameterFlow",
     name |-> child.name,
     direction |-> child.direction]

extract_composition_parameters_for_validation(composition_node) ==
    LET kept == SelectSeq(composition_node.children,
                          LAMBDA c : c.type \in {"Identifier", "ParameterFlow"})
    IN [i \in 1..Len(kept) |-> CompositionParameter(kept[i])]

\* The resolver's extractor rejects a child of any other type.
extract_composition_parameters(composition_node) ==
    IF \E i \in 1..Len(composition_node.children) :
           composition_node.children[i].type \notin
               {"Identifier", "ParameterFlow", "ProtocolReference"}
    THEN [error |-> CompositionError("UnexpectedChild", <<>>, <<>>, 0, 0),
          parameters |-> <<>>]
    ELSE [error |-> NoError,
          parameters |-> extract_composition_parameters_for_validation(composition_node)]

extract_protocol_roles(protocol) == protocol.roles
extract_protocol_parameters(protocol) == protocol.params

role_identifiers(composition_params) ==
    SelectSeq(composition_params, LAMBDA q : q.parameter_type = "RoleIdentifier")

validate_composition_parameters(referenced_protocol, composition_params, protocol_name) ==
    LET protocol_roles == extract_protocol_roles(referenced_protocol)
        protocol_parameters == extract_protocol_parameters(referenced_protocol)
        role_count == Len(role_identifiers(composition_params))
        undeclared == { i \in 1..Len(composition_params) :
                          /\ composition_params[i].parameter_type = "ParameterFlow"
                          /\ composition_params[i].name \notin Range(protocol_parameters) }
    IN IF role_count # Len(protocol_roles)
       THEN CompositionError("RoleCountMismatch", protocol_name, <<>>,
                             Len(protocol_roles), role_count)
       ELSE IF undeclared # {}
       THEN CompositionError("UndeclaredCompositionParameter", protocol_name,
                             composition_params[CHOOSE i \in undeclared :
                                 \A j \in undeclared : i <= j].name, 0, 0)
       ELSE NoError

\* validation/mod.rs: the reference must be registered and must not be the
\* enclosing protocol; nothing else is looked at.
validate_single_composition(composition_node, protocol_registry, parent_protocol_name) ==
    LET refs == reference_names(composition_node)
    IN IF refs = <<>>
       THEN CompositionError("NoReference", parent_protocol_name, <<>>, 0, 0)
       ELSE LET ref_name == refs[Len(refs)]
            IN IF ref_name \notin DOMAIN protocol_registry
               THEN CompositionError("UnknownReference", parent_protocol_name,
                                     ref_name, 0, 0)
               ELSE IF ref_name = parent_protocol_name
               THEN CompositionError("DirectRecursion", parent_protocol_name,
                                     ref_name, 0, 0)
               ELSE NoError

RECURSIVE validate_composition_items(_, _, _, _)
validate_composition_items(items, k, protocol_registry, parent_protocol_name) ==
    IF k > Len(items) THEN NoError
    ELSE LET error == IF items[k].type = "ProtocolComposition"
                      THEN validate_single_composition(items[k], protocol_registry,
                                                       parent_protocol_name)
                      ELSE NoError
         IN IF error # NoError THEN error
            ELSE validate_composition_items(items, k + 1, protocol_registry,
                                            parent_protocol_name)

validate_composition_references(protocol_node, protocol_registry) ==
    validate_composition_items(protocol_node.items, 1, protocol_registry,
                               extract_protocol_name(protocol_node))

\* composition.rs: the reference must be registered, and the site must agree
\* with the referenced protocol's declarations.
validate_composition_site(node, registry) ==
    LET refs == reference_names(node)
    IN IF refs = <<>>
       THEN CompositionError("ReferenceNotFound", <<>>, <<>>, 0, 0)
       ELSE LET protocol_name == refs[1]
            IN IF protocol_name \notin DOMAIN registry
               THEN CompositionError("UnknownProtocol", <<>>, protocol_name, 0, 0)
               ELSE validate_composition_parameters(
                        registry[protocol_name],
                        extract_composition_parameters_for_validation(node),
                        protocol_name)

RECURSIVE validate_compositions_items(_, _, _)
validate_compositions_items(items, k, registry) ==
    IF k > Len(items) THEN NoError
    ELSE LET error == IF items[k].type = "ProtocolComposition"
                      THEN validate_composition_site(items[k], registry)
                      ELSE NoError
         IN IF error # NoError THEN error
            ELSE validate_compositions_items(items, k + 1, registry)

validate_protocol_compositions_recursive(node, registry) ==
    validate_compositions_items(node.items, 1, registry)

\* apply_mappings renames through the role mappings every RoleRef and every
\* Identifier, wherever it stands: in a role or parameter declaration, under a
\* ParameterFlow, under a ProtocolReference.  The parameter mappings are the
\* identity.
mapped_name(name, role_mappings) ==
    IF name \in DOMAIN role_mappings THEN role_mappings[name] ELSE name

apply_to_child(child, role_mappings) ==
    IF child.type \in {"RoleRef", "Identifier", "ParameterFlow", "ProtocolReference"}
    THEN [child EXCEPT !.name = mapped_name(child.name, role_mappings)]
    ELSE child

apply_mappings(node, role_mappings) ==
    [node EXCEPT
       !.roles = [i \in 1..Len(node.roles) |-> mapped_name(node.roles[i], role_mappings)],
       !.params = [i \in 1..Len(node.params) |-> mapped_name(node.params[i], role_mappings)],
       !.items = [i \in 1..Len(node.items) |->
                    [node.items[i] EXCEPT
                       !.children = [j \in 1..Len(node.items[i].children) |->
                                       apply_to_child(node.items[i].children[j],
                                                      role_mappings)]]]]

\* zip of the declared roles with the bare identifiers of the site, collected
\* into a HashMap: of a role declared twice the last pairing stays.
create_role_mappings(protocol, composition_params) ==
    LET protocol_roles == extract_protocol_roles(protocol)
        composition_roles == role_identifiers(composition_params)
    IN IF Len(protocol_roles) # Len(composition_roles)
       THEN [error |-> CompositionError("RoleCountMismatch", <<>>, <<>>,
                                        Len(protocol_roles), Len(composition_roles)),
             mappings |-> <<>>]
       ELSE [error |-> NoError,
             mappings |->
               [r \in Range(protocol_roles) |->
                  composition_roles[CHOOSE i \in 1..Len(protocol_roles) :
                      /\ protocol_roles[i] = r
                      /\ \A j \in (i + 1)..Len(protocol_roles) : protocol_roles[j] # r].name]]

\* The resolver recurses into every instance it creates and nothing bounds the
\* recursion; `depth' is how many nested instances are still followed before
\* the run is counted as overflowing its stack.
RECURSIVE resolve_references_recursive(_, _, _, _)
RECURSIVE resolve_composition(_, _, _)
resolve_references_recursive(node, k, registry, depth) ==
    IF k > Len(node.items) THEN [error |-> NoError, node |-> node]
    ELSE IF node.items[k].type = "ProtocolComposition"
    THEN LET r == resolve_composition(node.items[k], registry, depth)
         IN IF r.error # NoError THEN [error |-> r.error, node |-> node]
            ELSE resolve_references_recursive([node EXCEPT !.items[k] = r.node],
                                              k + 1, registry, depth)
    ELSE resolve_references_recursive(node, k + 1, registry, depth)

resolve_composition(composition_node, registry, depth) ==
    LET refs == reference_names(composition_node)
        failed(error) == [error |-> error, node |-> composition_node]
    IN IF refs = <<>>
       THEN failed(CompositionError("ReferenceNotFound", <<>>, <<>>, 0, 0))
       ELSE IF refs[1] \notin DOMAIN registry
       THEN failed(CompositionError("UndefinedProtocol", <<>>, refs[1], 0, 0))
       ELSE
         LET protocol_name == refs[1]
             referenced_protocol == registry[protocol_name]
             extracted == extract_composition_parameters(composition_node)
             invalid == validate_composition_parameters(referenced_protocol,
                            extracted.parameters, protocol_name)
             role_mappings == create_role_mappings(referenced_protocol,
                                                   extracted.parameters)
         IN IF extracted.error # NoError THEN failed(extracted.error)
            ELSE IF invalid # NoError THEN failed(invalid)
            ELSE IF role_mappings.error # NoError THEN failed(role_mappings.error)
            ELSE IF depth = 0
            THEN failed(CompositionError("StackOverflow", <<>>, protocol_name, 0, 0))
            ELSE LET r == resolve_references_recursive(
                              apply_mappings(referenced_protocol, role_mappings.mappings),
                              1, registry, depth - 1)
                 IN IF r.error # NoError THEN failed(r.error) ELSE r

resolve_protocol_references(protocol, registry) ==
    resolve_references_recursive(protocol, 1, registry, MaxDepth)

(***************************************************************************)
(* The explored composition programs: the k-th protocol declares 3, 2, 1   *)
(* roles for k = 1, 2, 3 and the parameters p and q.                       *)
(***************************************************************************)
RolesAt(k) == SubSeq(RolesSection, 1, IF k < 3 THEN 4 - k ELSE 1)
CompositionParameters == <<pP, pQ>>

CompositionPool ==
    { StandardInteraction(rA, rB, aX, <<Out(pP)>>),
      StandardInteraction(rB, rA, aY, <<In(pP), Out(pQ)>>),
      ProtocolComposition(nQ, <<Identifier(rB), Identifier(rA), In(pP)>>),
      ProtocolComposition(nQ, <<Identifier(rA), Identifier(rB), Identifier(rC), In(pP)>>),
      ProtocolComposition(nQ, <<Identifier(rA)>>),
      ProtocolComposition(nQ, <<Identifier(rB), Identifier(rC), Out(pU)>>),
      ProtocolComposition(nP, <<Identifier(rC), Identifier(rA), Identifier(rB)>>),
      ProtocolComposition(nR, <<Identifier(rA)>>) }

\* A child protocol with a parameter named like its first role, composed with
\* the roles B, C of the parent.
CompositionScenarios ==
    { << Protocol(nP, RolesSection, CompositionParameters,
             << ProtocolComposition(nQ, <<Identifier(rB), Identifier(rC), In(pP)>>) >>),
         Protocol(nQ, <<rA, rB>>, <<rA, pP>>,
             << StandardInteraction(rA, rB, aX, <<In(pP), Out(rA)>>) >>) >> }

\* With same_name every protocol of the program has the name P.
CompositionProgram(shape, flat, same_name) ==
    [k \in 1..Len(shape) |->
        Protocol(IF same_name THEN nP ELSE ProtocolNameAt(k), RolesAt(k),
                 CompositionParameters,
                 SubSeq(flat, TotalItems(SubSeq(shape, 1, k - 1)) + 1,
                        TotalItems(SubSeq(shape, 1, k))))]

(***************************************************************************)
(* The composition entry points as a state machine: the registry is built, *)
(* then the protocols of the program are visited in order.                 *)
(***************************************************************************)
EntryPoints == { "validate_protocol_composition", "validate_protocol_compositions",
                 "resolve_protocol_references" }

analyzer_vars == <<declared_parameters, parameter_info, interactions, warnings, passLog>>

InitComp ==
    /\ \/ \E shape \in ProgramShapes(1, MaxItems) :
            \E flat \in [1..TotalItems(shape) -> CompositionPool] :
              \E same_name \in BOOLEAN :
                program = CompositionProgram(shape, flat, same_name)
       \/ program \in CompositionScenarios
    /\ entry \in EntryPoints
    /\ protoIdx = 0
    /\ pc = "register"
    /\ protocols = <<>>
    /\ expanded = <<>>
    /\ result = NoError
    /\ declared_parameters = {}
    /\ parameter_info = <<>>
    /\ interactions = <<>>
    /\ warnings = {}
    /\ passLog = <<>>
    /\ source = <<>>
    /\ output = <<>>
    /\ attempt = 0
    /\ args = <<>>

\* validate_protocol_composition: the first loop fills its own registry.
RegisterProtocols ==
    /\ pc = "register"
    /\ entry = "validate_protocol_composition"
    /\ protocols' = register_all(program, 1, <<>>)
    /\ pc' = "validate"
    /\ UNCHANGED <<program, protoIdx, result, entry, expanded, analyzer_vars, command_vars>>

\* ProtocolRegistry::from_program, and collect_protocols of the code generator.
FromProgram ==
    /\ pc = "register"
    /\ entry # "validate_protocol_composition"
    /\ protocols' = from_program(program)
    /\ pc' = IF entry = "validate_protocol_compositions" THEN "validate" ELSE "resolve"
    /\ UNCHANGED <<program, protoIdx, result, entry, expanded, analyzer_vars, command_vars>>

\* The `?' of the loops: the first error ends the run.
Visit(error) ==
    /\ protoIdx' = protoIdx + 1
    /\ IF error # NoError
       THEN /\ result' = error
            /\ pc' = "done"
       ELSE /\ result' = result
            /\ pc' = pc
    /\ UNCHANGED <<program, entry, protocols, analyzer_vars, command_vars>>

ValidateCompositionReferences ==
    /\ pc = "validate"
    /\ entry = "validate_protocol_composition"
    /\ protoIdx < Len(program)
    /\ Visit(validate_composition_references(program[protoIdx + 1], protocols))
    /\ UNCHANGED expanded

ValidateProtocolCompositionsRecursive ==
    /\ pc = "validate"
    /\ entry = "validate_protocol_compositions"
    /\ protoIdx < Len(program)
    /\ Visit(validate_protocol_compositions_recursive(program[protoIdx + 1], protocols))
    /\ UNCHANGED expanded

\* Variant that resolves the protocol of the program itself, not a copy.
ResolveWithoutCopy ==
    /\ pc = "resolve"
    /\ protoIdx < Len(program)
    /\ LET r == resolve_protocol_references(program[protoIdx + 1], protocols)
       IN /\ program' = [program EXCEPT ![protoIdx + 1] = r.node]
          /\ protoIdx' = protoIdx + 1
          /\ result' = IF r.error # NoError THEN r.error ELSE result
          /\ pc' = IF r.error # NoError THEN "done" ELSE pc
          /\ expanded' = IF r.error = NoError THEN Append(expanded, r.node)
                         ELSE expanded
    /\ UNCHANGED <<entry, protocols, analyzer_vars, command_vars>>

\* generate_program: each protocol is resolved on a copy of its own.
ResolveProtocolReferences ==
    /\ pc = "resolve"
    /\ protoIdx < Len(program)
    /\ LET r == resolve_protocol_references(program[protoIdx + 1], protocols)
       IN /\ Visit(r.error)
          /\ expanded' = IF r.error = NoError THEN Append(expanded, r.node)
                         ELSE expanded

\* Ok(()) after the last protocol.
CompositionOk ==
    /\ pc \in {"validate", "resolve"}
    /\ protoIdx = Len(program)
    /\ result' = OkVerdict
    /\ pc' = "done"
    /\ UNCHANGED <<program, protoIdx, entry, protocols, expanded, analyzer_vars, command_vars>>

NextComp ==
    \/ RegisterProtocols
    \/ FromProgram
    \/ ValidateCompositionReferences
    \/ ValidateProtocolCompositionsRecursive
    \/ ResolveProtocolReferences
    \/ CompositionOk

SpecComp == InitComp /\ [][NextComp]_vars

(***************************************************************************)
(* parse_source (transpiler/parser/mod.rs): the PEG grammar, applied to a  *)
(* text given as the sequence of its characters.  A rule that yields no    *)
(* node returns the position after its match, 0 when it does not match; a  *)
(* rule that yields a node returns [ok, pos, val].  Position 0 handed to a *)
(* rule makes it fail, so a sequence of rules is a nesting of calls.       *)
(***************************************************************************)
Letters == Range(LowerChars) \cup Range(UpperChars)
IdentifierChars == Letters \cup {"0","1","2","3","4","5","6","7","8","9","_"}
Whitespace == {" ", "\t", "\n", "\r"}

Matched(pos, val) == [ok |-> TRUE, pos |-> pos, val |-> val]
NoMatch == [ok |-> FALSE, pos |-> 0, val |-> <<>>]

\* A string literal of the grammar.
literal(text, s, i) ==
    IF i > 0 /\ i + Len(text) - 1 <= Len(s) /\ SubSeq(s, i, i + Len(text) - 1) = text
    THEN i + Len(text) ELSE 0

\* comment: "//", the rest of the line, and its line end if there is one.
RECURSIVE comment(_, _)
comment(s, i) ==
    IF i > Len(s) THEN i
    ELSE IF s[i] \in {"\n", "\r"} THEN i + 1
    ELSE comment(s, i + 1)

\* ws: any number of comments and white-space characters.
RECURSIVE ws(_, _)
ws(s, i) ==
    IF i = 0 THEN 0
    ELSE IF literal(<<"/","/">>, s, i) > 0 THEN ws(s, comment(s, i + 2))
    ELSE IF i <= Len(s) /\ s[i] \in Whitespace THEN ws(s, i + 1)
    ELSE i

\* The first position at or after i that holds no character of `chars'.
RECURSIVE many(_, _, _)
many(chars, s, i) ==
    IF i <= Len(s) /\ s[i] \in chars THEN many(chars, s, i + 1) ELSE i

identifier(s, i) ==
    IF i > 0 /\ i <= Len(s) /\ s[i] \in Letters
    THEN LET end == many(IdentifierChars, s, i + 1)
         IN Matched(end, SubSeq(s, i, end - 1))
    ELSE NoMatch

protocol_tag == <<"<","P","r","o","t","o","c","o","l",">">>
agent_tag == <<"<","A","g","e","n","t",">">>
action_tag == <<"<","A","c","t","i","o","n",">">>
enactment_tag == <<"<","E","n","a","c","t","m","e","n","t",">">>

\* basic_type: the first of the four type names that matches.
basic_type(s, i) ==
    LET types == <<<<"S","t","r","i","n","g">>, <<"I","n","t">>, <<"F","l","o","a","t">>, <<"B","o","o","l">>>>
        matching == { k \in 1..4 : literal(types[k], s, i) > 0 }
    IN IF matching = {} THEN 0
       ELSE literal(types[CHOOSE k \in matching : \A m \in matching : k <= m], s, i)

\* direction: "in" / "out", with nothing required of the character after it.
direction(s, i) ==
    IF literal(<<"i","n">>, s, i) > 0 THEN Matched(literal(<<"i","n">>, s, i), "in")
    ELSE IF literal(<<"o","u","t">>, s, i) > 0
    THEN Matched(literal(<<"o","u","t">>, s, i), "out")
    ELSE NoMatch

\* A rule that ends at `end' (0: no match) and yields `val'.
Result(end, val) == IF end > 0 THEN Matched(end, val) ELSE NoMatch
\* Ordered choice: the second alternative is taken when the first fails.
OrElse(first, second) == IF first.ok THEN first ELSE second
\* e ++ sep: the repetition with at least one element.
NonEmpty(list) == IF list.ok /\ list.pos > 0 /\ list.val # <<>> THEN list ELSE NoMatch

\* string_literal: the text between two double quotes is any run of
\* characters other than the double quote.
string_chars(s, open) ==
    IF open = 0 THEN 0 ELSE many({ c \in Range(s) : c # "\"" }, s, open)

string_literal(s, i) ==
    literal(<<"\"">>, s, string_chars(s, literal(<<"\"">>, s, i)))

\* annotation: "(" ws string_literal ws ")"
annotation(s, i) ==
    literal(<<")">>, s, ws(s, string_literal(s, ws(s, literal(<<"(">>, s, i)))))

role_decl(s, i) ==
    LET name == identifier(s, i)
    IN Result(annotation(s, ws(s, literal(agent_tag, s, ws(s, name.pos)))), name.val)

parameter_decl(s, i) ==
    LET name == identifier(s, i)
        typ == basic_type(s, ws(s, literal(<<"<">>, s, ws(s, name.pos))))
    IN Result(annotation(s, ws(s, literal(<<">">>, s, ws(s, typ)))), name.val)

flow_of(dir, name) ==
    IF name.ok THEN Matched(name.pos, ParameterFlowNode(dir.val, name.val)) ELSE NoMatch

parameter_flow(s, i) ==
    LET dir == direction(s, i)
    IN flow_of(dir, identifier(s, ws(s, dir.pos)))

identifier_of(name) ==
    IF name.ok THEN Matched(name.pos, Identifier(name.val)) ELSE NoMatch

\* composition_parameter: parameter_flow first, a bare identifier otherwise.
composition_parameter(s, i) ==
    OrElse(parameter_flow(s, i), identifier_of(identifier(s, i)))

\* The repetitions e ** sep and e ++ sep: `list' holds the elements matched
\* so far and the position after them, `next' is the attempt at one more
\* element; after each element the separator and one more element are tried
\* together.
\* role_decl() ** (ws() "," ws())
RECURSIVE role_decls(_, _, _)
role_decls(s, list, next) ==
    IF ~next.ok THEN list
    ELSE role_decls(s, Matched(next.pos, Append(list.val, next.val)),
             role_decl(s, ws(s, literal(<<",">>, s, ws(s, next.pos)))))

\* parameter_decl() ** (ws() "," ws())
RECURSIVE parameter_decls(_, _, _)
parameter_decls(s, list, next) ==
    IF ~next.ok THEN list
    ELSE parameter_decls(s, Matched(next.pos, Append(list.val, next.val)),
             parameter_decl(s, ws(s, literal(<<",">>, s, ws(s, next.pos)))))

\* parameter_flow() ** (ws() "," ws())
RECURSIVE parameter_flows(_, _, _)
parameter_flows(s, list, next) ==
    IF ~next.ok THEN list
    ELSE parameter_flows(s, Matched(next.pos, Append(list.val, next.val)),
             parameter_flow(s, ws(s, literal(<<",">>, s, ws(s, next.pos)))))

\* composition_parameter() ** (ws() "," ws())
RECURSIVE composition_parameters(_, _, _)
composition_parameters(s, list, next) ==
    IF ~next.ok THEN list
    ELSE composition_parameters(s, Matched(next.pos, Append(list.val, next.val)),
             composition_parameter(s, ws(s, literal(<<",">>, s, ws(s, next.pos)))))

\* The list found from position i on, with its first element tried at i.
Start(i) == IF i > 0 THEN Matched(i, <<>>) ELSE NoMatch

roles_section_at(s, i) == role_decls(s, Start(i), role_decl(s, i))

roles_section(s, i) ==
    roles_section_at(s, ws(s, literal(<<"r","o","l","e","s">>, s, i)))

parameters_section_at(s, i) == parameter_decls(s, Start(i), parameter_decl(s, i))

parameters_section(s, i) ==
    parameters_section_at(s, ws(s, literal(<<"p","a","r","a","m","e","t","e","r","s">>, s, i)))

\* ws "]" after the elements of a bracketed list.
closed(s, list) == Result(literal(<<"]">>, s, ws(s, list.pos)), list.val)

parameter_flows_at(s, i) == parameter_flows(s, Start(i), parameter_flow(s, i))

\* "[" ws (parameter_flow ** ",")? ws "]"
parameter_flow_list(s, i) ==
    closed(s, parameter_flows_at(s, ws(s, literal(<<"[">>, s, i))))

\* composition_parameter ** ","
composition_parameter_list(s, i) ==
    composition_parameters(s, Start(i), composition_parameter(s, i))

standard_interaction_of(from, to, action, flows) ==
    IF flows.ok
    THEN Matched(flows.pos, StandardInteraction(from.val, to.val, action.val, flows.val))
    ELSE NoMatch

standard_interaction(s, i) ==
    LET from == identifier(s, i)
        to == identifier(s, ws(s, literal(<<"-",">">>, s, ws(s, from.pos))))
        action == identifier(s, ws(s, literal(<<":">>, s, ws(s, to.pos))))
        ann == annotation(s, ws(s, literal(action_tag, s, ws(s, action.pos))))
    IN IF ~from.ok THEN NoMatch
       ELSE IF ~to.ok THEN NoMatch
       ELSE IF ~action.ok \/ ann = 0 THEN NoMatch
       ELSE standard_interaction_of(from, to, action, parameter_flow_list(s, ws(s, ann)))

protocol_reference(s, i) ==
    LET name == identifier(s, i)
    IN Result(literal(enactment_tag, s, ws(s, name.pos)), name.val)

protocol_composition_of(ref, params) ==
    IF params.ok THEN Matched(params.pos, ProtocolComposition(ref.val, params.val))
    ELSE NoMatch

protocol_composition(s, i) ==
    LET ref == protocol_reference(s, i)
    IN protocol_composition_of(ref,
           closed(s, composition_parameter_list(s,
                         ws(s, literal(<<"[">>, s, ws(s, ref.pos))))))

interaction_item(s, i) ==
    OrElse(standard_interaction(s, i), protocol_composition(s, i))

\* interaction_item() ++ ws(), the elements
RECURSIVE interaction_items_from(_, _, _)
interaction_items_from(s, list, next) ==
    IF ~next.ok THEN list
    ELSE interaction_items_from(s, Matched(next.pos, Append(list.val, next.val)),
             interaction_item(s, ws(s, next.pos)))

\* interaction_item() ++ ws(): at least one item.
interactions_section(s, i) ==
    NonEmpty(interaction_items_from(s, Start(i), interaction_item(s, i)))

protocol_of(s, named, role_list, parameter_list, item_list) ==
    Result(literal(<<"}">>, s, ws(s, item_list.pos)),
           Protocol(named.val, role_list.val, parameter_list.val, item_list.val))

protocol(s, i) ==
    LET name == identifier(s, i)
        ann == annotation(s, ws(s, literal(protocol_tag, s, ws(s, name.pos))))
        roles == roles_section(s, ws(s, literal(<<"{">>, s, ws(s, ann))))
        params == parameters_section(s, ws(s, roles.pos))
    IN IF ~name.ok \/ ann = 0 THEN NoMatch
       ELSE IF ~roles.ok THEN NoMatch
       ELSE IF ~params.ok THEN NoMatch
       ELSE protocol_of(s, name, roles, params, interactions_section(s, ws(s, params.pos)))

\* protocol() ++ ws(), the elements
RECURSIVE protocols_from(_, _, _)
protocols_from(s, list, next) ==
    IF ~next.ok THEN list
    ELSE protocols_from(s, Matched(next.pos, Append(list.val, next.val)),
             protocol(s, ws(s, next.pos)))

program_of(text, list) ==
    IF list.ok /\ ws(text, list.pos) = Len(text) + 1
    THEN [error |-> NoError, program |-> list.val]
    ELSE [error |-> Verdict("ParseError", <<>>, <<>>, <<>>, {}, <<>>), program |-> <<>>]

program_at(text, i) == NonEmpty(protocols_from(text, Start(i), protocol(text, i)))

\* program: ws protocol ++ ws ws, up to the end of the text.
parse_source(text) == program_of(text, program_at(text, ws(text, 1)))

(***************************************************************************)
(* The explored texts: one protocol P, a roles section, a parameters       *)
(* section and up to MaxSourceItems interaction items, each chosen among a *)
(* few spellings.                                                          *)
(***************************************************************************)
SourceHeader == <<"P"," ","<","P","r","o","t","o","c","o","l",">","(","\"","\"",")"," ","{","\n">>
RolesTexts ==
    { <<"r","o","l","e","s","\n">>,
      <<"r","o","l","e","s"," ","A"," ","<","A","g","e","n","t",">","(","\"","\"",")","\n">>,
      <<"r","o","l","e","s"," ","A"," ","<","A","g","e","n","t",">","(","\"","\"",")",","," ","B"," ","<","A","g","e","n","t",">","(","\"","\"",")","\n">> }
ParametersTexts ==
    { <<"p","a","r","a","m","e","t","e","r","s","\n">>,
      <<"p","a","r","a","m","e","t","e","r","s"," ","p"," ","<","S","t","r","i","n","g",">","(","\"","\"",")","\n">>,
      <<"p","a","r","a","m","e","t","e","r","s"," ","p"," ","<","S","t","r","i","n","g",">","(","\"","\"",")",","," ","q"," ","<","I","n","t",">","(","\"","\"",")","\n">> }
\* What stands between the brackets of a standard interaction.
FlowListTexts ==
    { <<>>,
      <<"i","n"," ","p">>,
      <<"o","u","t"," ","p",","," ","i","n"," ","q">>,
      <<"i","n","p","u","t">>,
      <<"o","u","t","l","i","n","e">>,
      <<"t","h","r","o","u","g","h"," ","p">>,
      <<"p">> }
\* What stands between the brackets of a composition.
CompositionListTexts ==
    { <<"A",","," ","B",","," ","i","n"," ","p">>,
      <<"i","n","s","p","e","c","t","o","r",","," ","B">>,
      <<"A",","," ","o","u","t","l","i","n","e">>,
      <<"A",","," ","B">> }
ItemTexts ==
    { <<"A"," ","-",">"," ","B",":"," ","x"," ","<","A","c","t","i","o","n",">","(","\"","\"",")"," ","[">> \o flows \o <<"]", "\n">> : flows \in FlowListTexts }
      \cup { <<"Q"," ","<","E","n","a","c","t","m","e","n","t",">","[">> \o params \o <<"]", "\n">> : params \in CompositionListTexts }

RECURSIVE Concatenation(_)
Concatenation(texts) ==
    IF texts = <<>> THEN <<>> ELSE Head(texts) \o Concatenation(Tail(texts))

SourceText(roles, params, items) ==
    SourceHeader \o roles \o params \o Concatenation(items) \o <<"}">>

(***************************************************************************)
(* parse_source as a state machine: one text, one call.                    *)
(***************************************************************************)
InitParse ==
    /\ \E roles \in RolesTexts, params \in ParametersTexts, n \in 1..MaxSourceItems :
         \E items \in [1..n -> ItemTexts] :
            source = SourceText(roles, params, items)
    /\ entry = "parse_source"
    /\ pc = "parse"
    /\ program = <<>>
    /\ protoIdx = 0
    /\ result = NoError
    /\ declared_parameters = {}
    /\ parameter_info = <<>>
    /\ interactions = <<>>
    /\ warnings = {}
    /\ passLog = <<>>
    /\ protocols = <<>>
    /\ expanded = <<>>
    /\ output = <<>>
    /\ attempt = 0
    /\ args = <<>>

ParseSource ==
    /\ pc = "parse"
    /\ LET parsed == parse_source(source)
       IN /\ program' = parsed.program
          /\ result' = IF parsed.error = NoError THEN OkVerdict ELSE parsed.error
    /\ pc' = "done"
    /\ UNCHANGED <<protoIdx, entry, protocols, expanded, analyzer_vars, source,
                   output, attempt, args>>

NextParse == ParseSource

SpecParse == InitParse /\ [][NextParse]_vars

(***************************************************************************)
(* BmppCodeGenerator::generate (transpiler/codegen.rs).  The generator     *)
(* registers the protocols, resolves the compositions of a copy of each    *)
(* protocol, turns the copy into a Protocol struct and emits one method    *)
(* per interaction of the struct.  Of the emitted text the model keeps the *)
(* name of the struct and, for each method, its name, its arguments and    *)
(* the parameters its result type is built from.                           *)
(***************************************************************************)
to_lowercase_char(c) ==
    IF \E i \in 1..Len(UpperChars) : UpperChars[i] = c
    THEN LowerChars[CHOOSE i \in 1..Len(UpperChars) : UpperChars[i] = c]
    ELSE c

to_lowercase(s) == [i \in 1..Len(s) |-> to_lowercase_char(s[i])]

process_parameter_flow(node) ==
    [direction |-> node.direction, parameter |-> node.name]

\* The value of the attribute "role" of a node: the grammar sets "name",
\* "direction", "description" and "type", and no "role", on the nodes it builds.
role_attribute(child) == "none"

\* The name of the last Identifier child carrying role = `role', else `default'.
role_tagged_name(children, role, default) ==
    LET tagged == SelectSeq(children,
                            LAMBDA c : c.type = "Identifier" /\ role_attribute(c) = role)
    IN IF tagged = <<>> THEN default ELSE tagged[Len(tagged)].name

process_standard_interaction(node) ==
    LET flows == SelectSeq(node.children, LAMBDA c : c.type = "ParameterFlow")
    IN [type |-> "StandardInteraction",
        from_role |-> role_tagged_name(node.children, "from", Unknown),
        to_role |-> role_tagged_name(node.children, "to", Unknown),
        action |-> role_tagged_name(node.children, "action", unknown_action),
        parameter_flows |-> [i \in 1..Len(flows) |-> process_parameter_flow(flows[i])]]

process_protocol_composition(node) ==
    LET refs == reference_names(node)
        ids == SelectSeq(node.children, LAMBDA c : c.type = "Identifier")
        flows == SelectSeq(node.children, LAMBDA c : c.type = "ParameterFlow")
    IN [type |-> "ProtocolComposition",
        protocol_name |-> IF refs = <<>> THEN UnknownProtocol ELSE refs[Len(refs)],
        roles |-> [i \in 1..Len(ids) |-> ids[i].name],
        parameter_flows |-> [i \in 1..Len(flows) |-> process_parameter_flow(flows[i])]]

\* The child of an InteractionItem: an interaction, a composition, or what the
\* resolver has put in the place of a composition.
process_interaction_item(child) ==
    IF child.type = "StandardInteraction"
    THEN [error |-> NoError, item |-> process_standard_interaction(child)]
    ELSE IF child.type = "ProtocolComposition"
    THEN [error |-> NoError, item |-> process_protocol_composition(child)]
    ELSE [error |-> Verdict("NoValidInteractionType", <<>>, <<>>, <<>>, {}, <<>>),
          item |-> <<>>]

process_protocol(node) ==
    LET processed == [i \in 1..Len(node.items) |-> process_interaction_item(node.items[i])]
        failing == { i \in 1..Len(processed) : processed[i].error # NoError }
    IN IF failing # {}
       THEN [error |-> processed[CHOOSE i \in failing : \A j \in failing : i <= j].error,
             protocol |-> <<>>]
       ELSE [error |-> NoError,
             protocol |-> [name |-> node.name, roles |-> node.roles,
                           parameters |-> node.params,
                           interactions |-> [i \in 1..Len(processed) |-> processed[i].item]]]

\* The names of the flows of one direction, in the order of the flow list.
flow_parameters(item, dir) ==
    LET kept == SelectSeq(item.parameter_flows, LAMBDA f : f.direction = dir)
    IN [i \in 1..Len(kept) |-> kept[i].parameter]

generate_standard_interaction_method(interaction) ==
    [name |-> to_lowercase(interaction.action),
     inputs |-> [i \in 1..Len(flow_parameters(interaction, "in")) |->
                    to_lowercase(flow_parameters(interaction, "in")[i])],
     outputs |-> flow_parameters(interaction, "out")]

generate_composition_method(composition) ==
    [name |-> <<"e","n","a","c","t","_">> \o to_lowercase(composition.protocol_name),
     inputs |-> [i \in 1..Len(flow_parameters(composition, "in")) |->
                    to_lowercase(flow_parameters(composition, "in")[i])],
     outputs |-> flow_parameters(composition, "out")]

generate_protocol_code(protocol_struct) ==
    [name |-> protocol_struct.name,
     methods |-> [i \in 1..Len(protocol_struct.interactions) |->
                    IF protocol_struct.interactions[i].type = "StandardInteraction"
                    THEN generate_standard_interaction_method(protocol_struct.interactions[i])
                    ELSE generate_composition_method(protocol_struct.interactions[i])]]

(***************************************************************************)
(* generate as a state machine: `expanded' collects the Protocol structs   *)
(* of generate_program, `output' is the emitted code.                      *)
(***************************************************************************)
InitGen ==
    /\ \E shape \in ProgramShapes(1, MaxItems) :
         \E flat \in [1..TotalItems(shape) -> CompositionPool] :
            program = CompositionProgram(shape, flat, FALSE)
    /\ entry = "generate"
    /\ pc = "collect_protocols"
    /\ protoIdx = 0
    /\ protocols = <<>>
    /\ expanded = <<>>
    /\ result = NoError
    /\ declared_parameters = {}
    /\ parameter_info = <<>>
    /\ interactions = <<>>
    /\ warnings = {}
    /\ passLog = <<>>
    /\ source = <<>>
    /\ output = <<>>
    /\ attempt = 0
    /\ args = <<>>

CollectProtocols ==
    /\ pc = "collect_protocols"
    /\ protocols' = register_all(program, 1, <<>>)
    /\ pc' = "process"
    /\ UNCHANGED <<program, protoIdx, result, entry, expanded, analyzer_vars, command_vars>>

\* One round of the second pass: copy, resolve, process_protocol.
ProcessProtocol ==
    /\ pc = "process"
    /\ protoIdx < Len(program)
    /\ LET resolved == resolve_protocol_references(program[protoIdx + 1], protocols)
           processed == process_protocol(resolved.node)
           error == IF resolved.error # NoError THEN resolved.error ELSE processed.error
       IN /\ Visit(error)
          /\ expanded' = IF error = NoError THEN Append(expanded, processed.protocol)
                         ELSE expanded

GenerateRustCode ==
    /\ pc = "process"
    /\ protoIdx = Len(program)
    /\ output' = [k \in 1..Len(expanded) |-> generate_protocol_code(expanded[k])]
    /\ result' = OkVerdict
    /\ pc' = "done"
    /\ UNCHANGED <<program, protoIdx, entry, protocols, expanded, analyzer_vars,
                   source, attempt, args>>

NextGen == CollectProtocols \/ ProcessProtocol \/ GenerateRustCode

SpecGen == InitGen /\ [][NextGen]_vars

(***************************************************************************)
(* to_protocol_command (cli/commands.rs): the generator is asked for a     *)
(* protocol text until one passes parse_source, validate_parameter_flow    *)
(* and validate_protocol_composition, at most max_attempts times; the last *)
(* text is then written out.                                               *)
(***************************************************************************)
\* The errors validate_protocol_parameter_flow can return for the protocol,
\* over the iteration orders of its maps; {NoError} when it returns Ok.
validate_protocol_parameter_flow(protocol_node) ==
    LET name == extract_protocol_name(protocol_node)
        collected == extract_interactions(protocol_node.items, Range(protocol_node.params),
                         extract_parameters(protocol_node.params), name)
        info == collected.parameter_info
        found == collected.interactions
        unreachable == validate_unreachable_interactions(info, found, name)
        unsafe == { validate_flow_consistency(order, info, found, name).error :
                      order \in IterationOrders(DOMAIN info) }
        cyclic == { validate_causality(order, info, found, name) :
                      order \in IterationOrders(ActionNames(found)) }
    IN IF collected.error # NoError THEN {collected.error}
       ELSE IF unreachable # NoError THEN {unreachable}
       ELSE IF unsafe # {NoError} THEN unsafe
       ELSE IF cyclic # {NoError} THEN cyclic
       ELSE IF validate_completeness(info, name).error # NoError
       THEN {validate_completeness(info, name).error}
       ELSE {validate_enactability(found, info, name).error}

\* The test of one generated text in the loop: it parses, the program has a
\* protocol, and both validations return Ok.
passes_all_validations(text) ==
    LET parsed == parse_source(text)
        ast == parsed.program
        registry == register_all(ast, 1, <<>>)
    IN /\ parsed.error = NoError
       /\ ast # <<>>
       /\ \A k \in 1..Len(ast) : validate_protocol_parameter_flow(ast[k]) = {NoError}
       /\ \A k \in 1..Len(ast) : validate_composition_references(ast[k], registry) = NoError

\* What the generator may answer: a protocol that passes, one with an
\* unknown direction keyword, one that consumes a parameter nobody produces,
\* and one that composes a protocol the text does not define.
GeneratedProtocol(item) ==
    <<"P"," ","<","P","r","o","t","o","c","o","l",">","(","\"","\"",")"," ",
      "{","\n","r","o","l","e","s"," ","A"," ","<","A","g","e","n","t",">",
      "(","\"","\"",")",","," ","B"," ","<","A","g","e","n","t",">","(","\"",
      "\"",")","\n","p","a","r","a","m","e","t","e","r","s"," ","p"," ","<",
      "S","t","r","i","n","g",">","(","\"","\"",")","\n">>
    \o item \o <<"\n", "}">>

GeneratedTexts ==
    { GeneratedProtocol(<<"A"," ","-",">"," ","B",":"," ","x"," ","<","A","c","t","i","o","n",">","(","\"","\"",")"," ","[","o","u","t"," ","p","]">>),
      GeneratedProtocol(<<"A"," ","-",">"," ","B",":"," ","x"," ","<","A","c","t","i","o","n",">","(","\"","\"",")"," ","[","t","h","r","o","u","g","h"," ","p","]">>),
      GeneratedProtocol(<<"A"," ","-",">"," ","B",":"," ","x"," ","<","A","c","t","i","o","n",">","(","\"","\"",")"," ","[","i","n"," ","p","]">>),
      GeneratedProtocol(<<"Q"," ","<","E","n","a","c","t","m","e","n","t",">","[","A",","," ","B","]">>) }

FailedAfterAttempts == Verdict("FailedAfterAttempts", <<>>, <<>>, <<>>, {}, <<>>)
CommandError(kind) == Verdict(kind, <<>>, <<>>, <<>>, {}, <<>>)

InitCommand ==
    /\ args \in [max_attempts : 0..MaxAttempts, skip_validation : BOOLEAN]
    /\ entry = "to_protocol_command"
    /\ pc = "setup"
    /\ attempt = 1
    /\ source = <<>>
    /\ output = <<>>
    /\ passLog = <<>>
    /\ result = NoError
    /\ program = <<>>
    /\ protoIdx = 0
    /\ declared_parameters = {}
    /\ parameter_info = <<>>
    /\ interactions = <<>>
    /\ warnings = {}
    /\ protocols = <<>>
    /\ expanded = <<>>

command_frame == <<program, protoIdx, declared_parameters, parameter_info, interactions,
                   warnings, entry, protocols, expanded, args>>

\* The description is read and the client is built, or one of the two fails.
Setup ==
    /\ pc = "setup"
    /\ \/ pc' = "loop" /\ result' = result
       \/ pc' = "done" /\ result' = CommandError("SetupError")
    /\ UNCHANGED <<command_frame, attempt, source, output, passLog>>

\* One round of the loop whose call of the generator returns `text'; passLog
\* keeps the calls of the generator with what each returned.
Attempt ==
    /\ pc = "loop"
    /\ attempt <= args.max_attempts
    /\ \E text \in GeneratedTexts :
         /\ source' = text
         /\ passLog' = Append(passLog, <<attempt, text>>)
         /\ IF args.skip_validation \/ passes_all_validations(text)
            THEN /\ pc' = "write"
                 /\ UNCHANGED <<attempt, result>>
            ELSE /\ attempt' = attempt + 1
                 /\ IF attempt + 1 > args.max_attempts
                    THEN pc' = "done" /\ result' = FailedAfterAttempts
                    ELSE pc' = "loop" /\ result' = result
    /\ UNCHANGED <<command_frame, output>>

\* llm_client.generate(&prompt)? returns an error.
GeneratorFails ==
    /\ pc = "loop"
    /\ attempt <= args.max_attempts
    /\ passLog' = Append(passLog, <<attempt, <<>>>>)
    /\ result' = CommandError("GeneratorError")
    /\ pc' = "done"
    /\ UNCHANGED <<command_frame, attempt, source, output>>

\* The loop condition attempt <= max_attempts is false.
LoopExit ==
    /\ pc = "loop"
    /\ attempt > args.max_attempts
    /\ pc' = "write"
    /\ UNCHANGED <<command_frame, attempt, source, output, passLog, result>>

\* The result is written to the output file, or the write fails.
WriteOutput ==
    /\ pc = "write"
    /\ \/ output' = <<source>> /\ result' = OkVerdict
       \/ output' = output /\ result' = CommandError("WriteError")
    /\ pc' = "done"
    /\ UNCHANGED <<command_frame, attempt, source, passLog>>

NextCommand == Setup \/ Attempt \/ GeneratorFails \/ LoopExit \/ WriteOutput

SpecCommand == InitCommand /\ [][NextCommand]_vars

(***************************************************************************)
(* What the properties speak about, read off the program text.             *)
(***************************************************************************)
FlowNames(item, dir) ==
    { item.children[k].name :
        k \in { j \in 1..Len(item.children) :
                  /\ item.children[j].type = "ParameterFlow"
                  /\ item.children[j].direction = dir } }

ChildNames(item, type) ==
    [k \in 1..Len(SelectSeq(item.children, LAMBDA c : c.type = type)) |->
        SelectSeq(item.children, LAMBDA c : c.type = type)[k].name]

\* The action name of an interaction; a composition goes by the protocol it
\* references.
ItemAction(item) ==
    IF item.type = "StandardInteraction"
    THEN ChildNames(item, "ActionName")[1]
    ELSE ChildNames(item, "ProtocolReference")[1]

\* Sender and receiver by position; a composition site lends its first two
\* role bindings, System standing in for a missing one.
ItemRole(item, position) ==
    LET roles == IF item.type = "StandardInteraction"
                 THEN ChildNames(item, "RoleRef")
                 ELSE ChildNames(item, "Identifier")
    IN IF position <= Len(roles) THEN roles[position] ELSE System

Declared(P) == Range(P.params)
Produced(P) == UNION { FlowNames(P.items[i], "out") : i \in 1..Len(P.items) }
Consumed(P) == UNION { FlowNames(P.items[i], "in") : i \in 1..Len(P.items) }
ProducingItems(P, p) == { i \in 1..Len(P.items) : p \in FlowNames(P.items[i], "out") }

HasUndeclaredFlow(P) ==
    \E i \in 1..Len(P.items) :
        (FlowNames(P.items[i], "in") \cup FlowNames(P.items[i], "out")) \ Declared(P) # {}

\* The pass that was the last to run, on the protocol being analysed.
JustRan(pass) ==
    /\ passLog # <<>>
    /\ passLog[Len(passLog)] = <<protoIdx, pass>>

IsError == result.kind \notin {"none", "Ok"}

(***************************************************************************)
(* C1: totality of declaration.  When a parameter flow of any interaction  *)
(* or composition of the program names an identifier that its protocol does*)
(* not declare, validate_parameter_flow ends with an error; a program that *)
(* validates Ok has no such flow, and the passes after the collection pass *)
(* only ever see a protocol without one.                                   *)
(***************************************************************************)
C1_TotalityOfDeclaration ==
    /\ (pc = "done" /\ \E k \in 1..Len(program) : HasUndeclaredFlow(program[k]))
          => IsError
    /\ result.kind = "Ok" => \A k \in 1..Len(program) : ~HasUndeclaredFlow(program[k])
    /\ pc \in {"reachability", "safety", "causality", "completeness", "enactability"}
          => ~HasUndeclaredFlow(program[protoIdx])

\* An undeclared name in a composition site is reported.
C1_Witness ==
    /\ pc = "done"
    /\ result.kind = "UndeclaredParameter"
    /\ result.parameter = pU
    /\ result.interaction = nChild

(***************************************************************************)
(* C2: reachability pass.  The pass fails exactly when some interaction    *)
(* has an `in' flow on a parameter that no interaction of the protocol     *)
(* produces and that is not a pre-protocol parameter; the error names such *)
(* an interaction and parameter (the first in declaration order).          *)
(***************************************************************************)
UnproducedInputPositions(P) ==
    { ik \in UNION { { <<i, k>> : k \in 1..Len(P.items[i].children) }
                     : i \in 1..Len(P.items) } :
        LET child == P.items[ik[1]].children[ik[2]] IN
          /\ child.type = "ParameterFlow"
          /\ child.direction = "in"
          /\ child.name \notin Produced(P)
          /\ ~is_pre_protocol_parameter(child.name) }

C2_ReachabilityPass ==
    JustRan("reachability") =>
        LET P == program[protoIdx]
            bad == UnproducedInputPositions(P)
        IN /\ (bad = {}) <=> (result = NoError)
           /\ bad # {} =>
                LET at == FirstPosition(bad) IN
                result = Verdict("UnreachableInteraction", P.name,
                                 ItemAction(P.items[at[1]]),
                                 P.items[at[1]].children[at[2]].name, {}, <<>>)

\* The pass fails on an interaction that comes after one whose inputs are all
\* produced.
C2_Witness ==
    /\ JustRan("reachability")
    /\ result.kind = "UnreachableInteraction"
    /\ result.interaction # ItemAction(program[protoIdx].items[1])
    /\ Consumed(program[protoIdx]) \cap Produced(program[protoIdx]) # {}

(***************************************************************************)
(* C3: single writer unless shared sender.  For every parameter with more  *)
(* than one producer the safety pass accepts the parameter if and only if  *)
(* all interactions that produce it have the same sender, and otherwise    *)
(* fails with the multiple-producers error; in a validated program all     *)
(* interactions producing a multiply-produced parameter share one sender.  *)
(***************************************************************************)
ProducerNames(P, p) == { ItemAction(P.items[i]) : i \in ProducingItems(P, p) }

SharedSender(P, p) ==
    \A i, j \in ProducingItems(P, p) :
        ItemRole(P.items[i], 1) = ItemRole(P.items[j], 1)

C3_SingleWriterUnlessSharedSender ==
    /\ JustRan("safety") =>
         LET P == program[protoIdx] IN
           /\ (result = NoError) <=>
                \A p \in Declared(P) :
                    Cardinality(ProducerNames(P, p)) > 1 => SharedSender(P, p)
           /\ result # NoError =>
                /\ result.kind = "MultipleProducers"
                /\ Cardinality(ProducerNames(P, result.parameter)) > 1
                /\ ~SharedSender(P, result.parameter)
    /\ result.kind = "Ok" =>
         \A k \in 1..Len(program) : \A p \in Declared(program[k]) :
             Cardinality(ProducingItems(program[k], p)) > 1 => SharedSender(program[k], p)

(***************************************************************************)
(* C4: acyclicity.  Every protocol of a validated program admits a total   *)
(* order of its interactions in which A comes before B for every edge      *)
(* A -> B of the precedence graph: A produces and B consumes a parameter,  *)
(* A # B, and the edge is not excluded by the parallel-branch rule (same   *)
(* sender, different receivers, and the parameter has several producers,   *)
(* all of that sender).                                                    *)
(***************************************************************************)
ParallelBranch(P, a, b, p) ==
    /\ ItemRole(P.items[a], 1) = ItemRole(P.items[b], 1)
    /\ ItemRole(P.items[a], 2) # ItemRole(P.items[b], 2)
    /\ Cardinality(ProducingItems(P, p)) > 1
    /\ \A i \in ProducingItems(P, p) :
           ItemRole(P.items[i], 1) = ItemRole(P.items[a], 1)

PrecedenceEdge(P, a, b) ==
    /\ a # b
    /\ \E p \in FlowNames(P.items[a], "out") \cap FlowNames(P.items[b], "in") :
           ~ParallelBranch(P, a, b, p)

HasTopologicalOrder(P) ==
    \E order \in IterationOrders(1..Len(P.items)) :
        \A x, y \in 1..Len(order) :
            PrecedenceEdge(P, order[x], order[y]) => x < y

C4_Acyclicity ==
    result.kind = "Ok" =>
        \A k \in 1..Len(program) : HasTopologicalOrder(program[k])

(***************************************************************************)
(* C5: pre-protocol whitelist.  A parameter that is consumed but never     *)
(* produced is accepted if and only if its name equals, letter case apart, *)
(* one of ID, TIMESTAMP, NONCE, SESSION_ID.                                *)
(***************************************************************************)
Whitelist ==
    { <<"I","D">>,
      <<"T","I","M","E","S","T","A","M","P">>,
      <<"N","O","N","C","E">>,
      <<"S","E","S","S","I","O","N","_","I","D">> }

SameLetter(c, d) ==
    \/ c = d
    \/ \E i \in 1..Len(LowerChars) : {c, d} = {LowerChars[i], UpperChars[i]}

EqualIgnoringCase(a, b) ==
    /\ Len(a) = Len(b)
    /\ \A i \in 1..Len(a) : SameLetter(a[i], b[i])

Whitelisted(n) == \E w \in Whitelist : EqualIgnoringCase(n, w)

ConsumedUnproduced(P) == Consumed(P) \ Produced(P)

C5_PreProtocolWhitelist ==
    /\ JustRan("reachability") =>
         ((result = NoError) <=>
             \A n \in ConsumedUnproduced(program[protoIdx]) : Whitelisted(n))
    /\ result.kind = "UnreachableInteraction" =>
         /\ result.parameter \in ConsumedUnproduced(program[protoIdx])
         /\ ~Whitelisted(result.parameter)
    /\ result.kind = "Ok" =>
         \A k \in 1..Len(program) :
             \A n \in ConsumedUnproduced(program[k]) : Whitelisted(n)

\* A name that differs from the literal in case only is accepted unproduced.
C5_Witness ==
    /\ pc = "done"
    /\ result.kind = "Ok"
    /\ \E n \in ConsumedUnproduced(program[1]) : n \notin Whitelist

(***************************************************************************)
(* C6: fail-fast pass ordering.  The passes run in the order collection,   *)
(* reachability, safety, causality, completeness, enactability, protocol   *)
(* after protocol in program order; an error is the error of the earliest  *)
(* failing pass of the earliest failing protocol and nothing runs after    *)
(* it.  A protocol with an unproduced input is never reported for its      *)
(* multiple producers.                                                     *)
(***************************************************************************)
PassOrder == <<"collect", "reachability", "safety", "causality",
               "completeness", "enactability">>

PassOfError(kind) ==
    CASE kind \in {"UndeclaredParameter", "InvalidDirection"} -> "collect"
      [] kind = "UnreachableInteraction" -> "reachability"
      [] kind = "MultipleProducers" -> "safety"
      [] kind = "CausalityViolation" -> "causality"
      [] kind \in {"UndefinedRole", "NeverProduced"} -> "enactability"
      [] OTHER -> "completeness"

\* Does the pass, run on its own on protocol P, return an error?
PassFails(P, pass) ==
    LET c == extract_interactions(P.items, Range(P.params),
                                  extract_parameters(P.params), P.name)
        order == CHOOSE o \in IterationOrders(ActionNames(c.interactions)) : TRUE
    IN CASE pass = "collect" -> c.error # NoError
         [] pass = "reachability" ->
              validate_unreachable_interactions(c.parameter_info, c.interactions,
                                                P.name) # NoError
         [] pass = "safety" ->
              \E p \in DOMAIN c.parameter_info :
                  /\ Cardinality(c.parameter_info[p].producers) > 1
                  /\ ~is_valid_parallel_production(p, c.parameter_info[p].producers,
                                                   c.interactions)
         [] pass = "causality" ->
              validate_causality(order, c.parameter_info, c.interactions,
                                 P.name) # NoError
         [] pass = "enactability" ->
              validate_enactability(c.interactions, c.parameter_info,
                                    P.name).error # NoError
         [] OTHER -> FALSE

\* The first pass that fails on P, "none" when P passes them all.
FirstFailingPass(P) ==
    IF PassFails(P, "collect") THEN "collect"
    ELSE IF \E i \in 2..Len(PassOrder) : PassFails(P, PassOrder[i])
    THEN PassOrder[CHOOSE i \in 2..Len(PassOrder) :
                       /\ PassFails(P, PassOrder[i])
                       /\ \A j \in 2..(i - 1) : ~PassFails(P, PassOrder[j])]
    ELSE "none"

C6_FailFastPassOrdering ==
    /\ \A i \in 1..Len(passLog) :
           passLog[i] = <<((i - 1) \div Len(PassOrder)) + 1,
                          PassOrder[((i - 1) % Len(PassOrder)) + 1]>>
    /\ IsError =>
         /\ pc = "done"
         /\ JustRan(PassOfError(result.kind))
         /\ result.protocol = program[protoIdx].name
         /\ \A k \in 1..(protoIdx - 1) : FirstFailingPass(program[k]) = "none"
         /\ FirstFailingPass(program[protoIdx]) = PassOfError(result.kind)
         /\ result.kind = "MultipleProducers" =>
                UnproducedInputPositions(program[protoIdx]) = {}
    /\ result.kind = "Ok" =>
         /\ Len(passLog) = Len(PassOrder) * Len(program)
         /\ \A k \in 1..Len(program) : FirstFailingPass(program[k]) = "none"

\* The second protocol fails in the reachability pass although a parameter of
\* it also has producers with different senders.
C6_Witness ==
    /\ pc = "done"
    /\ protoIdx = 2
    /\ result.kind = "UnreachableInteraction"
    /\ PassFails(program[2], "safety")

C8_ValidPurchaseNoWarnings ==
    (program = <<ValidPurchase>> /\ pc = "done") =>
        (result.kind = "Ok" /\ warnings = {})

\* C8 as amended: validating the valid purchase protocol returns Ok and emits
\* exactly one warning, the dead-end warning for the parameter `delivered',
\* which deliver produces and no interaction consumes.
C8_ValidPurchaseDeadEndWarning ==
    (program = <<ValidPurchase>> /\ pc = "done") =>
        /\ result.kind = "Ok"
        /\ warnings = { Warning("dead_end", sValidPurchase, {sdelivered}) }

C8_Witness ==
    /\ program = <<ValidPurchase>>
    /\ pc = "done"
    /\ Len(passLog) = Len(PassOrder)

(***************************************************************************)
(* C9: whenever validation fails with a causality violation because the    *)
(* precedence graph has a cycle, the names printed in the error include    *)
(* every action name of at least one cycle of that graph, and never the    *)
(* placeholder unknown_action.                                             *)
(***************************************************************************)
RECURSIVE ReachableWithin(_, _, _)
ReachableWithin(graph, reached, within) ==
    LET more == (UNION { Range(graph[n]) : n \in reached } \cap within) \ reached
    IN IF more = {} THEN reached
       ELSE ReachableWithin(graph, reached \cup more, within)

\* Some cycle of the graph runs through nodes of `within' only.
CycleWithin(graph, within) ==
    \E n \in within \cap DOMAIN graph :
        n \in ReachableWithin(graph, Range(graph[n]) \cap within,
                              within \cap DOMAIN graph)

C9_CycleNamedInError ==
    result.kind = "CausalityViolation" =>
        LET graph == precedence_graph(parameter_info, interactions) IN
        CycleWithin(graph, DOMAIN graph) =>
            /\ unknown_action \notin Range(result.path)
            /\ CycleWithin(graph, Range(result.path))

\* A mutual dependency of two interactions: both are named.
C9_Witness ==
    /\ result.kind = "CausalityViolation"
    /\ Len(interactions) = 2
    /\ Range(result.path) = ActionNames(interactions)
    /\ CycleWithin(precedence_graph(parameter_info, interactions),
                   ActionNames(interactions))

(***************************************************************************)
(* C10: composition arity.  Whichever entry point runs                     *)
(* (validate_protocol_composition, validate_protocol_compositions or the   *)
(* resolver), a program with a composition site whose number of bare role  *)
(* identifiers differs from the number of roles the referenced protocol    *)
(* declares is rejected with the arity-mismatch error.  The programs       *)
(* looked at have no other composition defect, so that no other error can  *)
(* come first.                                                             *)
(***************************************************************************)
Sites(prog) ==
    { s \in (1..Len(prog)) \X (1..MaxItems + 1) :
        /\ s[2] <= Len(prog[s[1]].items)
        /\ prog[s[1]].items[s[2]].type = "ProtocolComposition" }

SiteItem(prog, s) == prog[s[1]].items[s[2]]
SiteReference(prog, s) == ChildNames(SiteItem(prog, s), "ProtocolReference")[1]
DeclaredAs(prog, name) == { k \in 1..Len(prog) : prog[k].name = name }

ArityMismatch(prog, s) ==
    \E k \in DeclaredAs(prog, SiteReference(prog, s)) :
        Len(ChildNames(SiteItem(prog, s), "Identifier")) # Len(prog[k].roles)

RECURSIVE ComposedFrom(_, _)
ComposedFrom(prog, reached) ==
    LET more == { SiteReference(prog, s) :
                    s \in { t \in Sites(prog) : prog[t[1]].name \in reached } } \ reached
    IN IF more = {} THEN reached ELSE ComposedFrom(prog, reached \cup more)

\* Distinct protocol names, every reference known, no protocol composed from
\* itself directly or indirectly, every flow of a site declared by the
\* referenced protocol.
NoOtherCompositionDefect(prog) ==
    /\ \A j, k \in 1..Len(prog) : prog[j].name = prog[k].name => j = k
    /\ \A s \in Sites(prog) :
         /\ DeclaredAs(prog, SiteReference(prog, s)) # {}
         /\ prog[s[1]].name \notin ComposedFrom(prog, {SiteReference(prog, s)})
         /\ \A k \in DeclaredAs(prog, SiteReference(prog, s)) :
              (FlowNames(SiteItem(prog, s), "in") \cup FlowNames(SiteItem(prog, s), "out"))
                  \subseteq Range(prog[k].params)

C10_CompositionArity ==
    ( /\ pc = "done"
      /\ entry \in EntryPoints
      /\ NoOtherCompositionDefect(program)
      /\ \E s \in Sites(program) : ArityMismatch(program, s) )
    => result.kind = "RoleCountMismatch"

(***************************************************************************)
(* C11: composition parameter names.  Composition validation fails         *)
(* whenever an `in' or `out' flow of a composition site names a parameter  *)
(* that the referenced protocol does not declare.  The programs looked at  *)
(* have no other composition defect, so that no other error can come       *)
(* first.                                                                  *)
(***************************************************************************)
SiteFlows(prog, s) ==
    FlowNames(SiteItem(prog, s), "in") \cup FlowNames(SiteItem(prog, s), "out")

UndeclaredSiteFlow(prog, s) ==
    \E k \in DeclaredAs(prog, SiteReference(prog, s)) :
        ~(SiteFlows(prog, s) \subseteq Range(prog[k].params))

DistinctProtocolNames(prog) ==
    \A j, k \in 1..Len(prog) : prog[j].name = prog[k].name => j = k

\* Every reference is to a protocol of the program, and no protocol is
\* composed from itself, directly or indirectly.
SoundReferences(prog) ==
    \A s \in Sites(prog) :
        /\ DeclaredAs(prog, SiteReference(prog, s)) # {}
        /\ prog[s[1]].name \notin ComposedFrom(prog, {SiteReference(prog, s)})

Validators == { "validate_protocol_composition", "validate_protocol_compositions" }

C11_CompositionParameterNames ==
    ( /\ pc = "done"
      /\ entry \in Validators
      /\ DistinctProtocolNames(program)
      /\ SoundReferences(program)
      /\ \A s \in Sites(program) : ~ArityMismatch(program, s)
      /\ \E s \in Sites(program) : UndeclaredSiteFlow(program, s) )
    => result.kind = "UndeclaredCompositionParameter"

(***************************************************************************)
(* C12: unknown reference.  Composition validation and resolution end with *)
(* an error whenever some composition of the program references a name     *)
(* that no protocol of the program has; when the unknown reference is the  *)
(* first composition the run comes to, the error names the referenced      *)
(* protocol.                                                               *)
(***************************************************************************)
UnknownReferenceSites(prog) ==
    { s \in Sites(prog) : DeclaredAs(prog, SiteReference(prog, s)) = {} }

UnknownReferenceKinds == { "UnknownReference", "UnknownProtocol", "UndefinedProtocol" }

\* The first composition site of the program, in the order of the walk.
FirstSite(prog) ==
    CHOOSE s \in Sites(prog) :
        \A t \in Sites(prog) : s[1] < t[1] \/ (s[1] = t[1] /\ s[2] <= t[2])

C12_UnknownReference ==
    (pc = "done" /\ entry \in EntryPoints /\ UnknownReferenceSites(program) # {})
    => /\ result.kind \notin { "Ok", "StackOverflow" }
       /\ FirstSite(program) \in UnknownReferenceSites(program) =>
            /\ result.kind \in UnknownReferenceKinds
            /\ result.referenced = SiteReference(program, FirstSite(program))

(***************************************************************************)
(* C13: direct recursion.  Whichever composition validator runs, a program *)
(* in which some protocol contains a composition that references that very *)
(* protocol is rejected.                                                   *)
(***************************************************************************)
SelfReferenceSites(prog) ==
    { s \in Sites(prog) : SiteReference(prog, s) = prog[s[1]].name }

C13_DirectRecursion ==
    (pc = "done" /\ entry \in Validators /\ SelfReferenceSites(program) # {})
    => result.kind # "Ok"

(***************************************************************************)
(* C14: duplicate protocol names.  Building the registry from a program    *)
(* with two protocols of the same name ends the run with the duplicate     *)
(* name error; no entry point goes on with a registry that kept only one   *)
(* of them.                                                                *)
(***************************************************************************)
C14_DuplicateProtocolNames ==
    (pc # "register" /\ entry \in EntryPoints /\ ~DistinctProtocolNames(program))
    => /\ pc = "done"
       /\ result.kind = "DuplicateProtocolName"

(***************************************************************************)
(* C15: bounded expansion.  The resolver comes to an end, with a resolved  *)
(* tree or an error, on every protocol of every program, also when a       *)
(* protocol composes itself or two protocols compose each other: its       *)
(* recursion never runs until the stack overflows.                         *)
(***************************************************************************)
C15_BoundedExpansion ==
    entry = "resolve_protocol_references" => result.kind # "StackOverflow"

(***************************************************************************)
(* C16: resolver frame.  Resolving leaves the registry and the program it  *)
(* was built from as they are: during and after any number of              *)
(* resolve_protocol_references calls the registry still maps every name to *)
(* the protocol of the program, and the role substitution shows in the     *)
(* expanded instance only.                                                 *)
(***************************************************************************)
Resolving == entry = "resolve_protocol_references" /\ pc \in {"resolve", "done"}

C16_ResolverFrame ==
    /\ [](Resolving => protocols = from_program(program))
    /\ [][Resolving => (program' = program /\ protocols' = protocols)]_vars

\* A composition was expanded: the resolved protocol differs from its source.
C16_Witness ==
    /\ entry = "resolve_protocol_references"
    /\ pc = "done"
    /\ result.kind = "Ok"
    /\ \E i \in 1..Len(expanded) : expanded[i] # program[i]
    /\ protocols = from_program(program)

(***************************************************************************)
(* C17: expansion is exactly positional role substitution.  The expanded   *)
(* instance of a composition is the referenced protocol with the i-th      *)
(* declared role replaced, wherever it occurs as a role, by the i-th bare  *)
(* identifier of the site, in the same order of children; parameter names, *)
(* action names and protocol references stay as they are, also when a      *)
(* parameter has the name of a role.  Stated for referenced protocols      *)
(* without compositions of their own.                                      *)
(***************************************************************************)
RoleBinding(P, bindings, name) ==
    IF \E i \in 1..Len(P.roles) : P.roles[i] = name
    THEN bindings[CHOOSE i \in 1..Len(P.roles) : P.roles[i] = name]
    ELSE name

PositionalSubstitution(P, bindings) ==
    [P EXCEPT
       !.roles = [i \in 1..Len(P.roles) |-> RoleBinding(P, bindings, P.roles[i])],
       !.items = [i \in 1..Len(P.items) |->
                    [P.items[i] EXCEPT
                       !.children = [j \in 1..Len(P.items[i].children) |->
                          IF P.items[i].children[j].type = "RoleRef"
                          THEN [P.items[i].children[j] EXCEPT
                                  !.name = RoleBinding(P, bindings, @)]
                          ELSE P.items[i].children[j]]]]]

\* The sites that reference a protocol without composition sites of its own.
LeafSites(prog) ==
    { s \in Sites(prog) :
        /\ DeclaredAs(prog, SiteReference(prog, s)) # {}
        /\ \A t \in Sites(prog) : prog[t[1]].name # SiteReference(prog, s) }

C17_PositionalRoleSubstitution ==
    ( /\ entry = "resolve_protocol_references"
      /\ pc = "done"
      /\ result.kind = "Ok"
      /\ DistinctProtocolNames(program) )
    => \A s \in LeafSites(program) :
          expanded[s[1]].items[s[2]] =
              PositionalSubstitution(protocols[SiteReference(program, s)],
                                     ChildNames(SiteItem(program, s), "Identifier"))

(***************************************************************************)
(* C18: undefined role.  A program with an interaction whose sender or     *)
(* receiver is not declared in the RolesSection of its protocol is never   *)
(* accepted, and when no other pass fails on it the error is the           *)
(* undefined-role error.                                                   *)
(***************************************************************************)
UndeclaredRoleItems(P) ==
    { i \in 1..Len(P.items) :
        /\ P.items[i].type = "StandardInteraction"
        /\ \E position \in 1..2 : ItemRole(P.items[i], position) \notin Range(P.roles) }

C18_UndefinedRole ==
    (pc = "done" /\ \E k \in 1..Len(program) : UndeclaredRoleItems(program[k]) # {})
    => /\ result.kind # "Ok"
       /\ (\A k \in 1..Len(program) : \A i \in 1..4 : ~PassFails(program[k], PassOrder[i]))
             => result.kind = "UndefinedRole"

(***************************************************************************)
(* C19: enactability fixpoint.  The executable set starts with exactly the *)
(* interactions whose `in' flows are all pre-protocol parameters (or that  *)
(* have none) and grows by every interaction each of whose `in' parameters *)
(* is pre-protocol or produced by an interaction already in the set, until *)
(* nothing changes; the pass warns about exactly the interactions outside  *)
(* the final set.                                                          *)
(***************************************************************************)
InitiallyExecutableItems(P) ==
    { i \in 1..Len(P.items) : \A p \in FlowNames(P.items[i], "in") : Whitelisted(p) }

RECURSIVE ExecutableItems(_, _)
ExecutableItems(P, executable) ==
    LET more == { i \in (1..Len(P.items)) \ executable :
                    \A p \in FlowNames(P.items[i], "in") :
                        \/ Whitelisted(p)
                        \/ \E j \in executable : p \in FlowNames(P.items[j], "out") }
    IN IF more = {} THEN executable ELSE ExecutableItems(P, executable \cup more)

NeverExecutableItems(P) ==
    (1..Len(P.items)) \ ExecutableItems(P, InitiallyExecutableItems(P))

C19_EnactabilityFixpoint ==
    (JustRan("enactability") /\ result = NoError) =>
        LET P == program[protoIdx] IN
        { w.names : w \in { v \in warnings :
                              v.kind = "unreachable" /\ v.protocol = P.name } }
          = { {ItemAction(P.items[i])} : i \in NeverExecutableItems(P) }

(***************************************************************************)
(* C20: determinism.  For a fixed program the analyzer returns the same    *)
(* verdict, naming the same parameter and interactions, and the same       *)
(* warning set whatever the iteration order of its hash maps and hash      *)
(* sets: every order of the parameter map gives the safety pass the same   *)
(* outcome, and every order of the action set gives the causality pass the *)
(* same outcome.                                                           *)
(***************************************************************************)
SafetyOutcomes ==
    { validate_flow_consistency(order, parameter_info, interactions, current_protocol_name) :
        order \in IterationOrders(DOMAIN parameter_info) }

CausalityOutcomes ==
    { validate_causality(order, parameter_info, interactions, current_protocol_name) :
        order \in IterationOrders(ActionNames(interactions)) }

C20_Determinism ==
    /\ pc = "safety" => Cardinality(SafetyOutcomes) = 1
    /\ pc = "causality" => Cardinality(CausalityOutcomes) = 1

(***************************************************************************)
(* C21: duplicate declarations.  A protocol that declares two roles with   *)
(* the same name, or two parameters with the same name, is rejected by the *)
(* collection pass with an error.                                          *)
(***************************************************************************)
HasDuplicate(names) ==
    \E i, j \in 1..Len(names) : i # j /\ names[i] = names[j]

C21_DuplicateDeclarations ==
    (JustRan("collect")
       /\ (HasDuplicate(program[protoIdx].roles) \/ HasDuplicate(program[protoIdx].params)))
    => IsError

(***************************************************************************)
(* C22: non-empty sections.  parse_source rejects a protocol whose `roles' *)
(* keyword is followed by no role declaration or whose `parameters'        *)
(* keyword is followed by no parameter declaration: every RolesSection and *)
(* ParametersSection of a parsed AST has at least one child.               *)
(***************************************************************************)
Parsed == entry = "parse_source" /\ pc = "done" /\ result.kind = "Ok"

C22_NonEmptySections ==
    Parsed => \A k \in 1..Len(program) :
                 Len(program[k].roles) >= 1 /\ Len(program[k].params) >= 1

(***************************************************************************)
(* C28: direction keywords are whole tokens.  Every ParameterFlow node of  *)
(* a parsed AST comes from the token `in' or `out' followed by a separate  *)
(* identifier token; a single identifier such as `input', `outline' or     *)
(* `inspector' is never split into a direction and the remaining letters.  *)
(***************************************************************************)
DirectionToken(d) == IF d = "in" THEN <<"i","n">> ELSE <<"o","u","t">>

\* s holds `text' at i as a whole token: no identifier character before or
\* after it.
TokenAt(text, s, i) ==
    /\ literal(text, s, i) > 0
    /\ i = 1 \/ s[i - 1] \notin IdentifierChars
    /\ i + Len(text) > Len(s) \/ s[i + Len(text)] \notin IdentifierChars

\* The text holds the direction of the node as a token, white space, and the
\* name of the node as the next token.
WholeTokenFlow(node) ==
    \E i \in 1..Len(source) : \E j \in (i + 1)..Len(source) :
        /\ TokenAt(DirectionToken(node.direction), source, i)
        /\ TokenAt(node.name, source, j)
        /\ \A k \in (i + Len(DirectionToken(node.direction)))..(j - 1) :
              source[k] \in Whitespace

C28_DirectionKeywordsAreTokens ==
    Parsed => \A k \in 1..Len(program) : \A i \in 1..Len(program[k].items) :
                 \A c \in Range(program[k].items[i].children) :
                    c.type = "ParameterFlow" => WholeTokenFlow(c)

(***************************************************************************)
(* C23: emitter, standard interactions.  When generate succeeds, every     *)
(* StandardInteraction of the program has its own method, named after its  *)
(* action name in lower case, with its `in' parameters as arguments and    *)
(* its `out' parameters in the result type; so two interactions with       *)
(* different action names never yield methods of the same name.            *)
(***************************************************************************)
Generated == entry = "generate" /\ pc = "done" /\ result.kind = "Ok"

FlowSequence(item, dir) ==
    LET kept == SelectSeq(item.children,
                          LAMBDA c : c.type = "ParameterFlow" /\ c.direction = dir)
    IN [i \in 1..Len(kept) |-> kept[i].name]

ExpectedMethod(item) ==
    [name |-> to_lowercase(ItemAction(item)),
     inputs |-> [i \in 1..Len(FlowSequence(item, "in")) |->
                    to_lowercase(FlowSequence(item, "in")[i])],
     outputs |-> FlowSequence(item, "out")]

C23_EmitterStandardInteractions ==
    Generated =>
        \A k \in 1..Len(program) :
            /\ Len(output[k].methods) = Len(program[k].items)
            /\ \A i \in 1..Len(program[k].items) :
                  program[k].items[i].type = "StandardInteraction"
                    => output[k].methods[i] = ExpectedMethod(program[k].items[i])

(***************************************************************************)
(* C24: emitter, compositions.  When every composition of the program      *)
(* passes resolution, generate succeeds and emits, for each composition of *)
(* a protocol, a method enact_<name> of that protocol.                      *)
(***************************************************************************)
CompositionItems(P) ==
    { i \in 1..Len(P.items) : P.items[i].type = "ProtocolComposition" }

PassesResolution ==
    \A k \in 1..Len(program) :
        resolve_protocol_references(program[k], from_program(program)).error = NoError

C24_EmitterCompositions ==
    (entry = "generate" /\ pc = "done" /\ PassesResolution
        /\ \E k \in 1..Len(program) : CompositionItems(program[k]) # {})
    => /\ result.kind = "Ok"
       /\ \A k \in 1..Len(program) : \A i \in CompositionItems(program[k]) :
             \E m \in Range(output[k].methods) :
                m.name = <<"e","n","a","c","t","_">>
                            \o to_lowercase(ItemAction(program[k].items[i]))

(***************************************************************************)
(* C25: precedence edges are decided per parameter.  In a protocol whose   *)
(* interactions have different action names, the precedence graph built by *)
(* the causality pass holds the edge A -> B whenever A produces and B      *)
(* consumes some parameter p for which the parallel-branch rule does not   *)
(* hold (same sender, different receivers, p produced several times and    *)
(* only by that sender), whatever other parameters A and B share.          *)
(***************************************************************************)
DistinctActionNames(P) ==
    \A a, b \in 1..Len(P.items) : a # b => ItemAction(P.items[a]) # ItemAction(P.items[b])

C25_EdgesPerParameter ==
    (pc = "causality" /\ DistinctActionNames(program[protoIdx])) =>
        LET P == program[protoIdx]
            graph == precedence_graph(parameter_info, interactions)
        IN \A a, b \in 1..Len(P.items) :
              PrecedenceEdge(P, a, b)
                => ItemAction(P.items[b]) \in Range(graph[ItemAction(P.items[a])])

(***************************************************************************)
(* C26: a causality violation is reported only when the precedence graph   *)
(* has a cycle; a protocol whose graph is acyclic passes the causality     *)
(* pass, also when two of its interactions carry the same action name.     *)
(***************************************************************************)
C26_ViolationOnlyOnCycle ==
    (JustRan("causality") /\ result.kind = "CausalityViolation") =>
        LET graph == precedence_graph(parameter_info, interactions)
        IN CycleWithin(graph, DOMAIN graph)

(***************************************************************************)
(* C27: the cycle path of a causality error is a cycle of the precedence   *)
(* graph: it starts and ends with the same action name and each of its     *)
(* consecutive pairs is an edge, whatever the declaration order.  Looked   *)
(* at are the protocols whose graph does have a cycle.                     *)
(***************************************************************************)
GenuineCycle(graph, path) ==
    /\ Len(path) >= 2
    /\ path[1] = path[Len(path)]
    /\ \A i \in 1..(Len(path) - 1) :
          path[i] \in DOMAIN graph /\ path[i + 1] \in Range(graph[path[i]])

C27_CyclePathIsCycle ==
    (JustRan("causality") /\ result.kind = "CausalityViolation") =>
        LET graph == precedence_graph(parameter_info, interactions)
        IN CycleWithin(graph, DOMAIN graph) => GenuineCycle(graph, result.path)

(***************************************************************************)
(* C29: role extraction is positional for every role name.  After the      *)
(* collection pass the from_role of every StandardInteraction is the name  *)
(* of its first RoleRef and the to_role the name of its second, also for a *)
(* role literally named Unknown; and a protocol all of whose interaction   *)
(* roles are declared is not rejected with the undefined-roles error.      *)
(***************************************************************************)
C29_PositionalRoles ==
    /\ (JustRan("collect") /\ result = NoError) =>
          LET P == program[protoIdx] IN
          \A i \in 1..Len(P.items) :
              P.items[i].type = "StandardInteraction" =>
                  /\ interactions[i].from_role = ItemRole(P.items[i], 1)
                  /\ interactions[i].to_role = ItemRole(P.items[i], 2)
    /\ (pc = "done" /\ \A k \in 1..Len(program) : UndeclaredRoleItems(program[k]) = {})
          => result.kind # "UndefinedRole"

(***************************************************************************)
(* C30                                                                     *)
(***************************************************************************)
\* The texts the generator returned, in the order of the calls.
GeneratorCalls == [i \in 1..Len(passLog) |-> passLog[i][2]]
\* The command ended on an error of its environment (file, client, generator).
EnvironmentFailed == result.kind \in {"SetupError", "GeneratorError", "WriteError"}
CommandDone == entry = "to_protocol_command" /\ pc = "done"

\* C30: with skip_validation off, for every max_attempts >= 0, the command
\* calls the generator at most max_attempts times, makes no call after a text
\* that parses and passes both validations, returns Ok only if the last text
\* it generated is such a text and has been written out, and otherwise writes
\* nothing and (unless its environment failed) returns the "failed after N
\* attempts" error.
C30_RetryLoop ==
    (CommandDone /\ ~args.skip_validation) =>
        /\ Len(GeneratorCalls) <= args.max_attempts
        /\ \A i \in 1..(Len(GeneratorCalls) - 1) :
              ~passes_all_validations(GeneratorCalls[i])
        /\ result = OkVerdict =>
              /\ Len(GeneratorCalls) >= 1
              /\ passes_all_validations(GeneratorCalls[Len(GeneratorCalls)])
              /\ output = <<GeneratorCalls[Len(GeneratorCalls)]>>
        /\ result # OkVerdict =>
              /\ output = <<>>
              /\ EnvironmentFailed \/ result = FailedAfterAttempts

====
